---------------------------- MODULE Spec2Model ----------------------------
(***************************************************************************)
(* Render coordination queue of prerender-url-shortener                    *)
(* (internal/renderer/queue.go), its worker pool, the link store it        *)
(* updates (package db) and the callers of the queue.                      *)
(*                                                                         *)
(* Goroutines are processes with a program counter.  A step that acquires  *)
(* rq.mutex is merged with the statements that follow it up to the next    *)
(* point where another goroutine can observe a difference; the mutex is a  *)
(* variable, so every step that needs it is disabled while it is held.     *)
(* The select of WaitForRender is resolved by the first of its two events  *)
(* (a send on waitChan, the timer of time.After), as the Go runtime does   *)
(* for a goroutine parked in select; time itself is not modelled.          *)
(***************************************************************************)
EXTENDS Naturals, Integers, Sequences, FiniteSets, TLC

(* ------------------------------ bounds -------------------------------- *)

\* smallest capacity of rq.jobs (make(chan RenderJob, 100) in
\* InitRenderQueue; the repository's tests build queues of capacity 2 and 10)
Capacity == 1

\* workerCount passed to InitRenderQueue (RENDER_WORKER_COUNT)
NumWorkers == 1

\* goroutines calling into the queue (raw callers or HTTP handlers)
NumCallers == 2

\* HTTP requests the handlers take up in one behaviour
MaxRequests == 3

URLs == {"u1", "u2"}

ShortCodes == {"s1", "s2"}

\* the short code a direct caller of the queue passes along with a URL
CodeOf(originalURL) == IF originalURL = "u1" THEN "s1" ELSE "s2"

Workers == 1..NumWorkers

Callers == 1..NumCallers

(* --------------------------- program values --------------------------- *)

RenderStatusPending == "pending"

RenderStatusRendering == "rendering"

RenderStatusCompleted == "completed"

RenderStatusFailed == "failed"

\* HTML a successful render produces
MockHTML == "<html>"

RenderJob(shortCode, originalURL) ==
  [ShortCode |-> shortCode, OriginalURL |-> originalURL]

NoJob == [ShortCode |-> "", OriginalURL |-> ""]

\* rq.mutex: unlocked, or write-locked by a caller or a worker
Unlocked == <<>>

ByCaller(c) == <<"caller", c>>

ByWorker(w) == <<"worker", w>>

VARIABLES
  jobs,        \* rq.jobs: the buffered channel's contents, oldest first
  closed,      \* rq.jobs has been closed
  inProgress,  \* rq.inProgress: the URLs mapped to true
  waiting,     \* rq.waiting: URL -> sequence of wait channels (named by caller)
  mutex,       \* rq.mutex holder
  waitChan,    \* caller -> number of values buffered in its waitChan (cap 1)
  links,       \* the links table, in primary-key order
  wpc,         \* worker -> position in worker()
  wjob,        \* worker -> the job it holds
  cpc,         \* caller -> position
  cjob,        \* caller -> arguments of the call in progress
  after,       \* caller -> position to continue at when the queue call returns
  outcome,     \* caller -> how its last queue call ended (the call's log line)
  requests,    \* number of HTTP requests taken up so far
  jobsCap,     \* cap(rq.jobs), fixed when the channel is made
  orphans,     \* renderWithRod goroutines still running after their
               \* RenderPageWithRod call returned on its timeout
  snapshot,    \* the map GetStatus returned to a StatusHandler that has not
               \* responded yet, as a one-element sequence
  allowedDomains  \* config.AppConfig.AllowedDomains, a string as the sequence
               \* of its characters

vars == <<jobs, closed, inProgress, waiting, mutex, waitChan, links,
          wpc, wjob, cpc, cjob, after, outcome, requests, jobsCap, orphans,
          snapshot, allowedDomains>>

queueVars == <<jobs, closed, inProgress, waiting, mutex, waitChan>>

workerVars == <<wpc, wjob>>

callerVars == <<cpc, cjob, after, outcome>>

(* ------------------------------ helpers ------------------------------- *)

RECURSIVE IndexOf(_, _, _)
\* index of the first element of s, from position i on, equal to x; 0 if none
IndexOf(s, x, i) ==
  IF i > Len(s) THEN 0
  ELSE IF s[i] = x THEN i
  ELSE IndexOf(s, x, i + 1)

\* append(waiters[:i], waiters[i+1:]...)
RemoveAt(s, i) == SubSeq(s, 1, i - 1) \o SubSeq(s, i + 1, Len(s))

Range(s) == {s[i] : i \in 1..Len(s)}

(* ------------------------------ package db ---------------------------- *)

Link(shortCode, originalURL, html, status) ==
  [ShortCode |-> shortCode, OriginalURL |-> originalURL,
   RenderedHTMLContent |-> html, RenderStatus |-> status]

NoLink == Link("", "", "", "")

RECURSIVE FirstWhere(_, _, _, _)
\* DB.Where("<column> = ?", value).First(&link): the row with the lowest
\* primary key that matches; NoLink stands for gorm's record-not-found error
FirstWhere(rows, column, value, i) ==
  IF i > Len(rows) THEN NoLink
  ELSE IF rows[i][column] = value THEN rows[i]
  ELSE FirstWhere(rows, column, value, i + 1)

GetLinkByShortCode(shortCode) == FirstWhere(links, "ShortCode", shortCode, 1)

GetLinkByOriginalURL(originalURL) ==
  FirstWhere(links, "OriginalURL", originalURL, 1)

\* UPDATE links SET render_status = status WHERE short_code = shortCode
UpdateLinkRenderStatus(rows, shortCode, status) ==
  [i \in 1..Len(rows) |->
     IF rows[i].ShortCode = shortCode
       THEN [rows[i] EXCEPT !.RenderStatus = status]
       ELSE rows[i]]

\* UPDATE links SET rendered_html_content = html, render_status = status
\* WHERE short_code = shortCode
UpdateLinkContent(rows, shortCode, html, status) ==
  [i \in 1..Len(rows) |->
     IF rows[i].ShortCode = shortCode
       THEN [rows[i] EXCEPT !.RenderedHTMLContent = html,
                            !.RenderStatus = status]
       ELSE rows[i]]

(* --------------------------- initial state ---------------------------- *)

\* InitRenderQueue: empty channel and maps, workers started
InitQueue ==
  /\ jobs = <<>>
  /\ closed = FALSE
  /\ inProgress = {}
  /\ waiting = [u \in URLs |-> <<>>]
  /\ mutex = Unlocked
  /\ waitChan = [c \in Callers |-> 0]
  /\ wpc = [w \in Workers |-> "range"]
  /\ wjob = [w \in Workers |-> NoJob]
  /\ cpc = [c \in Callers |-> "idle"]
  /\ cjob = [c \in Callers |-> NoJob]
  /\ after = [c \in Callers |-> "idle"]
  /\ outcome = [c \in Callers |-> "none"]
  /\ requests = 0
  /\ orphans = 0
  /\ snapshot = <<>>

\* ALLOWED_DOMAINS is not set: the empty string, which allows every domain
AllowAll == <<>>

\* the capacities a queue is built with
Capacities == {Capacity, Capacity + 1}

\* the queue on its own, over an empty links table
Init ==
  /\ InitQueue
  /\ jobsCap \in Capacities
  /\ links = <<>>
  /\ allowedDomains = AllowAll

(* ------------------------ RenderQueue.QueueRender ---------------------- *)

LockFree_Always == TRUE

\* rq.mutex.Lock() and rq.mutex.RLock() return: no goroutine holds the write
\* lock (a read lock is taken and released within one step)
LockFree == mutex = Unlocked

\* caller c's call returns to position `ret`; the call's locals are dead
Return(c, ret) ==
  /\ cpc' = [cpc EXCEPT ![c] = ret]
  /\ cjob' = [cjob EXCEPT ![c] = IF ret = "idle" THEN NoJob ELSE @]
  /\ after' = [after EXCEPT ![c] = "idle"]

AlreadyInProgress_Never(originalURL) == FALSE

\* line 52: if rq.inProgress[originalURL]
AlreadyInProgress(originalURL) == originalURL \in inProgress

\* line 64: the send case of the select can proceed (room in the buffer)
CanSend == Len(jobs) < jobsCap

SelectReady_NoDefault == closed \/ CanSend

\* lines 63-70: a select with a default case never waits for a case to become
\* ready
SelectReady == TRUE

Send_Front(ch, job) == <<job>> \o ch

\* line 64: rq.jobs <- job: the job goes behind the jobs already buffered
Send(ch, job) == Append(ch, job)

RollBack_Keep(marked, originalURL) == marked

\* line 69: delete(rq.inProgress, originalURL) when the job is dropped
RollBack(marked, originalURL) == marked \ {originalURL}

\* lines 46-58: lock; return if the URL is already being rendered, else mark
\* it and go on to the select holding the lock
QueueRenderEnter(c, shortCode, originalURL, ret) ==
  /\ LockFree
  /\ IF AlreadyInProgress(originalURL)
       THEN /\ outcome' = [outcome EXCEPT ![c] = "duplicate"]
            /\ Return(c, ret)
            /\ UNCHANGED <<inProgress, mutex>>
       ELSE /\ outcome' = [outcome EXCEPT ![c] = "none"]
            /\ inProgress' = inProgress \cup {originalURL}
            /\ mutex' = ByCaller(c)
            /\ cpc' = [cpc EXCEPT ![c] = "QueueRender.select"]
            /\ cjob' = [cjob EXCEPT ![c] = RenderJob(shortCode, originalURL)]
            /\ after' = [after EXCEPT ![c] = ret]
  /\ UNCHANGED <<jobs, closed, waiting, waitChan, links, workerVars, requests, jobsCap, orphans, snapshot,
                 allowedDomains>>

\* lines 63-70 and the deferred Unlock: a send on the closed channel panics
\* (the marker of line 58 stays, the deferred Unlock runs); otherwise the
\* job is sent if there is room, and the marker is deleted if there is none
QueueRenderSelect(c) ==
  /\ cpc[c] = "QueueRender.select"
  /\ mutex = ByCaller(c)
  /\ SelectReady
  /\ mutex' = Unlocked
  /\ IF closed
       THEN /\ cpc' = [cpc EXCEPT ![c] = "panic"]
            /\ outcome' = [outcome EXCEPT ![c] = "panic"]
            /\ UNCHANGED <<jobs, inProgress, cjob, after>>
       ELSE IF CanSend
         THEN /\ jobs' = Send(jobs, cjob[c])
              /\ outcome' = [outcome EXCEPT ![c] = "queued"]
              /\ Return(c, after[c])
              /\ UNCHANGED inProgress
         ELSE /\ inProgress' = RollBack(inProgress, cjob[c].OriginalURL)
              /\ outcome' = [outcome EXCEPT ![c] = "dropped"]
              /\ Return(c, after[c])
              /\ UNCHANGED jobs
  /\ UNCHANGED <<closed, waiting, waitChan, links, workerVars, requests, jobsCap, orphans, snapshot,
                 allowedDomains>>

\* gin's Recovery middleware (gin.Default) ends the request of a handler
\* that panicked; the process goes on
Recover(c) ==
  /\ cpc[c] = "panic"
  /\ Return(c, "idle")
  /\ UNCHANGED <<queueVars, links, workerVars, outcome, requests, jobsCap, orphans, snapshot,
                 allowedDomains>>

(* ------------------------ RenderQueue.WaitForRender -------------------- *)

\* the bool WaitForRender returns: true on line 98, false on lines 83, 112
WaitResult(c) == outcome[c] = "completed"

NotInProgress_Never(originalURL) == FALSE

\* line 80: if !rq.inProgress[originalURL]
NotInProgress(originalURL) == originalURL \notin inProgress

\* lines 77-90: lock; return false if the URL is not in progress, else
\* register a fresh one-slot channel and unlock
WaitForRenderEnter(c, originalURL, ret) ==
  /\ LockFree
  /\ IF NotInProgress(originalURL)
       THEN /\ outcome' = [outcome EXCEPT ![c] = "nowait"]
            /\ Return(c, ret)
            /\ UNCHANGED <<waiting, waitChan>>
       ELSE /\ waiting' = [waiting EXCEPT ![originalURL] = Append(@, c)]
            /\ waitChan' = [waitChan EXCEPT ![c] = 0]
            /\ outcome' = [outcome EXCEPT ![c] = "none"]
            /\ cpc' = [cpc EXCEPT ![c] = "WaitForRender.select"]
            /\ cjob' = [cjob EXCEPT ![c] = RenderJob(cjob[c].ShortCode, originalURL)]
            /\ after' = [after EXCEPT ![c] = ret]
  /\ UNCHANGED <<jobs, closed, inProgress, mutex, links, workerVars, requests, jobsCap, orphans, snapshot,
                 allowedDomains>>

\* lines 96-98: case <-waitChan: return true
WaitForRenderSignal(c) ==
  /\ cpc[c] = "WaitForRender.select"
  /\ waitChan[c] > 0
  /\ waitChan' = [waitChan EXCEPT ![c] = @ - 1]
  /\ outcome' = [outcome EXCEPT ![c] = "completed"]
  /\ Return(c, after[c])
  /\ UNCHANGED <<jobs, closed, inProgress, waiting, mutex, links, workerVars, requests, jobsCap, orphans, snapshot,
                 allowedDomains>>

\* line 99: case <-time.After(timeout), taken when the timer fires first
WaitForRenderTimer(c) ==
  /\ cpc[c] = "WaitForRender.select"
  /\ waitChan[c] = 0
  /\ cpc' = [cpc EXCEPT ![c] = "WaitForRender.cleanup"]
  /\ UNCHANGED <<queueVars, links, workerVars, cjob, after, outcome, requests, jobsCap, orphans, snapshot,
                 allowedDomains>>

RemoveWaiter_First(waiters, ch) ==
  IF waiters = <<>> THEN waiters ELSE Tail(waiters)

RemoveWaiter_Keep(waiters, ch) == waiters

RemoveWaiter_All(waiters, ch) == <<>>

\* lines 103-110: the waiters of the URL without the first occurrence of ch
RemoveWaiter(waiters, ch) ==
  LET i == IndexOf(waiters, ch, 1)
  IN IF i = 0 THEN waiters ELSE RemoveAt(waiters, i)

\* lines 102-112: lock, remove the own channel from the list, unlock,
\* return false; the channel is then unreachable
WaitForRenderCleanup(c) ==
  /\ cpc[c] = "WaitForRender.cleanup"
  /\ LockFree
  /\ waiting' = [waiting EXCEPT ![cjob[c].OriginalURL] = RemoveWaiter(@, c)]
  /\ waitChan' = [waitChan EXCEPT ![c] = 0]
  /\ outcome' = [outcome EXCEPT ![c] = "timedout"]
  /\ Return(c, after[c])
  /\ UNCHANGED <<jobs, closed, inProgress, mutex, links, workerVars, requests, jobsCap, orphans, snapshot,
                 allowedDomains>>

(* --------------------------- RenderQueue.worker ------------------------ *)

\* line 120: for job := range rq.jobs, a job is received
WorkerReceive(w) ==
  /\ wpc[w] = "range"
  /\ jobs # <<>>
  /\ wjob' = [wjob EXCEPT ![w] = Head(jobs)]
  /\ jobs' = Tail(jobs)
  /\ wpc' = [wpc EXCEPT ![w] = "status"]
  /\ UNCHANGED <<closed, inProgress, waiting, mutex, waitChan, links,
                 callerVars, requests, jobsCap, orphans, snapshot,
                 allowedDomains>>

\* lines 120, 185: the channel is closed and drained, the loop ends
WorkerStop(w) ==
  /\ wpc[w] = "range"
  /\ jobs = <<>>
  /\ closed
  /\ wpc' = [wpc EXCEPT ![w] = "stopped"]
  /\ UNCHANGED <<queueVars, links, wjob, callerVars, requests, jobsCap, orphans, snapshot,
                 allowedDomains>>

\* lines 124-130: db.UpdateLinkRenderStatus(job.ShortCode, rendering)
WorkerSetRendering(w) ==
  /\ wpc[w] = "status"
  /\ links' = UpdateLinkRenderStatus(links, wjob[w].ShortCode,
                                     RenderStatusRendering)
  /\ wpc' = [wpc EXCEPT ![w] = "render"]
  /\ UNCHANGED <<queueVars, wjob, callerVars, requests, jobsCap, orphans, snapshot,
                 allowedDomains>>

\* lines 126-127: the update returns an error, which is logged and ignored
WorkerSetRenderingFails(w) ==
  /\ wpc[w] = "status"
  /\ links' = links
  /\ wpc' = [wpc EXCEPT ![w] = "render"]
  /\ UNCHANGED <<queueVars, wjob, callerVars, requests, jobsCap, orphans, snapshot,
                 allowedDomains>>

TerminalUpdate_Skipped(rows, job, err) == rows

TerminalUpdate_OnlySuccess(rows, job, err) ==
  IF err = "error"
    THEN rows
    ELSE UpdateLinkContent(rows, job.ShortCode, MockHTML, RenderStatusCompleted)

\* lines 140-158: the terminal update of the store for the job
TerminalUpdate(rows, job, err) ==
  IF err = "error"
    THEN UpdateLinkContent(rows, job.ShortCode, "", RenderStatusFailed)
    ELSE UpdateLinkContent(rows, job.ShortCode, MockHTML, RenderStatusCompleted)

\* the results RenderPageWithRod can return: HTML, or an error
RenderResults == {"ok", "error"}

\* lines 135-158: RenderPageWithRod(job.OriginalURL) returns err, the worker
\* locks and records the result in the store
WorkerRecord(w, err) ==
  /\ wpc[w] = "render"
  /\ LockFree
  /\ mutex' = ByWorker(w)
  /\ links' = TerminalUpdate(links, wjob[w], err)
  /\ wpc' = [wpc EXCEPT ![w] = "notify"]
  /\ UNCHANGED <<jobs, closed, inProgress, waiting, waitChan, wjob,
                 callerVars, requests, jobsCap, orphans, snapshot,
                 allowedDomains>>

WorkerUpdate(w) == \E err \in RenderResults : WorkerRecord(w, err)

OnUpdateError_Return(w) == "stopped"

\* lines 144-145, 153-154: after log.Printf of the error the worker goes on
\* with the notify loop of line 160
OnUpdateError(w) == "notify"

\* lines 144-145, 153-154: the update returns an error, which is logged and
\* ignored
WorkerUpdateFails(w) ==
  /\ wpc[w] = "render"
  /\ LockFree
  /\ mutex' = ByWorker(w)
  /\ links' = links
  /\ wpc' = [wpc EXCEPT ![w] = OnUpdateError(w)]
  /\ UNCHANGED <<jobs, closed, inProgress, waiting, waitChan, wjob,
                 callerVars, requests, jobsCap, orphans, snapshot,
                 allowedDomains>>

NotifyAll_Everyone(chans, waiters) ==
  [c \in Callers |-> IF chans[c] < 1 THEN chans[c] + 1 ELSE chans[c]]

NotifyAll_FirstOnly(chans, waiters) ==
  [c \in Callers |->
     IF waiters # <<>> /\ c = Head(waiters) /\ chans[c] < 1
       THEN chans[c] + 1 ELSE chans[c]]

\* lines 164-171: a non-blocking send of true on each channel of waiters
NotifyAll(chans, waiters) ==
  [c \in Callers |->
     IF c \in Range(waiters) /\ chans[c] < 1 THEN chans[c] + 1 ELSE chans[c]]

NotifyReady_Rendezvous(chans, waiters) ==
  \A c \in Range(waiters) : cpc[c] = "WaitForRender.select" /\ chans[c] < 1

\* lines 165-170: every send is a case of a select with a default branch, so
\* the loop goes on whatever the state of the channels and their receivers
NotifyReady(chans, waiters) == TRUE

DeleteWaiters_Keep(registry, originalURL) == registry

\* line 173: delete(rq.waiting, job.OriginalURL)
DeleteWaiters(registry, originalURL) ==
  [registry EXCEPT ![originalURL] = <<>>]

MutexAfterNotify_Released(w) == Unlocked

\* lines 138-179: the worker still holds rq.mutex between notifying and
\* clearing; the Unlock comes last, on line 179
MutexAfterNotify(w) == ByWorker(w)

\* lines 160-173: notify the waiters of the URL, delete its registry entry
WorkerNotify(w) ==
  /\ wpc[w] = "notify"
  /\ mutex = ByWorker(w)
  /\ NotifyReady(waitChan, waiting[wjob[w].OriginalURL])
  /\ waitChan' = NotifyAll(waitChan, waiting[wjob[w].OriginalURL])
  /\ waiting' = DeleteWaiters(waiting, wjob[w].OriginalURL)
  /\ mutex' = MutexAfterNotify(w)
  /\ wpc' = [wpc EXCEPT ![w] = "clear"]
  /\ UNCHANGED <<jobs, closed, inProgress, links, wjob, callerVars, requests, jobsCap, orphans, snapshot,
                 allowedDomains>>

ClearInProgress_Keep(marked, originalURL) == marked

\* lines 175-177: delete(rq.inProgress, job.OriginalURL)
ClearInProgress(marked, originalURL) == marked \ {originalURL}

\* lines 175-179: delete the URL from rq.inProgress, unlock, next iteration
WorkerClear(w) ==
  /\ wpc[w] = "clear"
  /\ inProgress' = ClearInProgress(inProgress, wjob[w].OriginalURL)
  /\ mutex' = Unlocked
  /\ wpc' = [wpc EXCEPT ![w] = "range"]
  /\ wjob' = [wjob EXCEPT ![w] = NoJob]
  /\ UNCHANGED <<jobs, closed, waiting, waitChan, links, callerVars, requests, jobsCap, orphans, snapshot,
                 allowedDomains>>

worker(w) ==
  \/ WorkerReceive(w)
  \/ WorkerStop(w)
  \/ WorkerSetRendering(w)
  \/ WorkerUpdate(w)
  \/ WorkerNotify(w)
  \/ WorkerClear(w)

\* the worker's steps on which the store returns an error
workerStoreError(w) ==
  \/ WorkerSetRenderingFails(w)
  \/ WorkerUpdateFails(w)

(* --------------------------- RenderQueue.Shutdown ---------------------- *)

\* lines 220-223: close(rq.jobs), called once by main's signal goroutine
Shutdown ==
  /\ ~closed
  /\ closed' = TRUE
  /\ UNCHANGED <<jobs, inProgress, waiting, mutex, waitChan, links,
                 workerVars, callerVars, requests, jobsCap, orphans, snapshot,
                 allowedDomains>>

(* --------------------------- RenderQueue.GetStatus --------------------- *)

RECURSIVE WaitingCount(_)
\* lines 205-208: waitingCount += len(waiters) for the waiters of each URL
WaitingCount(urls) ==
  IF urls = {} THEN 0
  ELSE LET u == CHOOSE x \in urls : TRUE
       IN Len(waiting[u]) + WaitingCount(urls \ {u})

GetStatus_WaitedURLs ==
  [worker_count       |-> NumWorkers,
   queue_length       |-> Len(jobs),
   in_progress_count  |-> Cardinality(inProgress),
   in_progress_urls   |-> inProgress,
   waiting_goroutines |-> Cardinality({u \in URLs : waiting[u] # <<>>})]

\* lines 200-216: the map GetStatus builds under the read lock;
\* rq.workerCount is the number of workers InitRenderQueue started, the URL
\* slice is in map order, so it is taken as a set
GetStatus ==
  [worker_count       |-> NumWorkers,
   queue_length       |-> Len(jobs),
   in_progress_count  |-> Cardinality(inProgress),
   in_progress_urls   |-> inProgress,
   waiting_goroutines |-> WaitingCount(URLs)]

\* handlers.go line 316 with queue.go lines 196-217: GET /status calls
\* GetStatus, which gets the read lock when no writer holds rq.mutex; one
\* status request at a time is followed
StatusCall ==
  /\ snapshot = <<>>
  /\ LockFree
  /\ snapshot' = <<GetStatus>>
  /\ UNCHANGED <<queueVars, links, workerVars, callerVars, requests, jobsCap,
                 orphans, allowedDomains>>

\* handlers.go lines 318-323: c.JSON(http.StatusOK, status)
StatusRespond ==
  /\ snapshot # <<>>
  /\ snapshot' = <<>>
  /\ UNCHANGED <<queueVars, links, workerVars, callerVars, requests, jobsCap,
                 orphans, allowedDomains>>

\* api.StatusHandler
StatusHandler == StatusCall \/ StatusRespond

(* -------------------------- RenderQueue.IsInProgress ------------------- *)

\* line 192: return rq.inProgress[originalURL]
IsInProgress(originalURL) == originalURL \in inProgress

\* lines 189-193: a goroutine calls rq.IsInProgress(originalURL); the answer
\* is kept as the outcome of the call
IsInProgressCall(c) ==
  /\ cpc[c] = "idle"
  /\ LockFree
  /\ \E u \in URLs :
       outcome' = [outcome EXCEPT ![c] = IF IsInProgress(u) THEN "inflight"
                                                            ELSE "absent"]
  /\ UNCHANGED <<queueVars, links, workerVars, cpc, cjob, after, requests,
                 jobsCap, orphans, snapshot, allowedDomains>>

(* ------------------- the queue driven by direct callers ---------------- *)

\* a goroutine calls rq.QueueRender(shortCode, originalURL)
Submit(c) ==
  /\ cpc[c] = "idle"
  /\ \E u \in URLs : QueueRenderEnter(c, CodeOf(u), u, "idle")

\* a goroutine calls rq.WaitForRender(originalURL, timeout)
Await(c) ==
  /\ cpc[c] = "idle"
  /\ \E u \in URLs : WaitForRenderEnter(c, u, "idle")

QueueCall(c) ==
  \/ QueueRenderSelect(c)
  \/ Recover(c)
  \/ WaitForRenderSignal(c)
  \/ WaitForRenderTimer(c)
  \/ WaitForRenderCleanup(c)

Next ==
  \/ \E c \in Callers : Submit(c)
  \/ \E c \in Callers : Await(c)
  \/ \E c \in Callers : QueueCall(c)
  \/ \E w \in Workers : worker(w)
  \/ \E w \in Workers : workerStoreError(w)
  \/ Shutdown

Spec == Init /\ [][Next]_vars

(* ------------------- api.GenerateShortCodeHandler ---------------------- *)

Terminal_CompletedOnly == {RenderStatusCompleted}

\* line 67: the statuses for which the handler answers at once
Terminal == {RenderStatusCompleted, RenderStatusFailed}

\* short codes no row of the table uses (the uniqueness loop, lines 135-163)
FreeCodes == ShortCodes \ {links[i].ShortCode : i \in 1..Len(links)}

\* lines 42-47: url.Parse(req.URL).Hostname(), as characters
Hostname(url) == IF url = "u1" THEN <<"a">> ELSE <<"a", "b">>

RECURSIVE Split(_)
\* line 49: strings.Split(s, ","): the pieces of s between the commas
Split(s) ==
  LET i == IndexOf(s, ",", 1)
  IN IF i = 0 THEN <<s>>
     ELSE <<SubSeq(s, 1, i - 1)>> \o Split(SubSeq(s, i + 1, Len(s)))

RECURSIVE TrimSpace(_)
\* line 51: strings.TrimSpace(s): s without leading and trailing spaces
TrimSpace(s) ==
  IF s # <<>> /\ Head(s) = " " THEN TrimSpace(Tail(s))
  ELSE IF s # <<>> /\ s[Len(s)] = " " THEN TrimSpace(SubSeq(s, 1, Len(s) - 1))
  ELSE s

DomainAllowed_ListOnly(url) ==
  \E i \in 1..Len(Split(allowedDomains)) :
    TrimSpace(Split(allowedDomains)[i]) = Hostname(url)

\* lines 41-58: no check when AllowedDomains is the empty string, else some
\* trimmed piece of it has to equal the hostname
DomainAllowed(url) ==
  \/ allowedDomains = <<>>
  \/ \E i \in 1..Len(Split(allowedDomains)) :
       TrimSpace(Split(allowedDomains)[i]) = Hostname(url)

\* c.JSON(status, GenerateResponse{ShortCode, OriginalURL}) and return: the
\* request of caller c ends; the caller keeps the response it sent
Respond(c, status, shortCode, originalURL) ==
  /\ cpc' = [cpc EXCEPT ![c] = "idle"]
  /\ after' = [after EXCEPT ![c] = "idle"]
  /\ outcome' = [outcome EXCEPT ![c] = status]
  /\ cjob' = [cjob EXCEPT ![c] = RenderJob(shortCode, originalURL)]

\* lines 40-129: 403 if the domain is not allowed; else
\* db.GetLinkByOriginalURL(req.URL) and the branch on the row: completed or
\* failed answers 200 at once, pending or rendering goes on to the
\* IsInProgress check, not found goes on to create the link
GenerateLookup(c, url) ==
  /\ cpc[c] = "idle"
  /\ requests < MaxRequests
  /\ LET existingLink == GetLinkByOriginalURL(url)
     IN IF ~DomainAllowed(url)
          THEN Respond(c, "403", "", "")
        ELSE IF existingLink = NoLink
          THEN /\ cpc' = [cpc EXCEPT ![c] = "Generate.create"]
               /\ cjob' = [cjob EXCEPT ![c] = RenderJob("", url)]
               /\ outcome' = [outcome EXCEPT ![c] = "none"]
               /\ UNCHANGED after
          ELSE IF existingLink.RenderStatus \in Terminal
            THEN Respond(c, "200", existingLink.ShortCode,
                         existingLink.OriginalURL)
            ELSE /\ cpc' = [cpc EXCEPT ![c] = "Generate.check"]
                 /\ cjob' = [cjob EXCEPT ![c] =
                               RenderJob(existingLink.ShortCode, url)]
                 /\ outcome' = [outcome EXCEPT ![c] = "none"]
                 /\ UNCHANGED after
  /\ requests' = requests + 1
  /\ UNCHANGED <<queueVars, links, workerVars, jobsCap, orphans, snapshot,
                 allowedDomains>>

\* line 78: renderer.GlobalRenderQueue.IsInProgress(req.URL), under RLock
GenerateCheck(c) ==
  /\ cpc[c] = "Generate.check"
  /\ LockFree
  /\ cpc' = [cpc EXCEPT ![c] =
               IF cjob[c].OriginalURL \in inProgress
                 THEN "Generate.wait" ELSE "Generate.requeue"]
  /\ UNCHANGED <<queueVars, links, workerVars, cjob, after, outcome, requests, jobsCap, orphans, snapshot,
                 allowedDomains>>

\* line 99: QueueRender(existingLink.ShortCode, req.URL)
GenerateRequeue(c) ==
  /\ cpc[c] = "Generate.requeue"
  /\ QueueRenderEnter(c, cjob[c].ShortCode, cjob[c].OriginalURL, "Generate.wait")

\* lines 82, 103: WaitForRender(req.URL, timeoutDuration) for an existing link
GenerateWait(c) ==
  /\ cpc[c] = "Generate.wait"
  /\ WaitForRenderEnter(c, cjob[c].OriginalURL, "Generate.ok")

\* lines 84-122: 200 with the existing short code, whatever the wait returned
GenerateOK(c) ==
  /\ cpc[c] = "Generate.ok"
  /\ Respond(c, "200", cjob[c].ShortCode, cjob[c].OriginalURL)
  /\ UNCHANGED <<queueVars, links, workerVars, requests, jobsCap, orphans, snapshot,
                 allowedDomains>>

\* lines 131-181: a short code no row uses, then db.CreateLink with status
\* pending; 500 when no unique code is found
GenerateCreate(c) ==
  /\ cpc[c] = "Generate.create"
  /\ IF FreeCodes = {}
       THEN /\ Respond(c, "500", "", "")
            /\ UNCHANGED links
       ELSE \E code \in FreeCodes :
              /\ links' = Append(links, Link(code, cjob[c].OriginalURL, "",
                                             RenderStatusPending))
              /\ cpc' = [cpc EXCEPT ![c] = "Generate.queue"]
              /\ cjob' = [cjob EXCEPT ![c] = RenderJob(code, cjob[c].OriginalURL)]
              /\ UNCHANGED <<after, outcome>>
  /\ UNCHANGED <<queueVars, workerVars, requests, jobsCap, orphans, snapshot,
                 allowedDomains>>

\* line 184: QueueRender(generatedShortCode, req.URL)
GenerateQueue(c) ==
  /\ cpc[c] = "Generate.queue"
  /\ QueueRenderEnter(c, cjob[c].ShortCode, cjob[c].OriginalURL,
                      "Generate.waitNew")

\* line 191: WaitForRender(req.URL, timeoutDuration) for the new link
GenerateWaitNew(c) ==
  /\ cpc[c] = "Generate.waitNew"
  /\ WaitForRenderEnter(c, cjob[c].OriginalURL, "Generate.created")

\* lines 192-222: 201 with the new short code, whatever the wait returned
GenerateCreated(c) ==
  /\ cpc[c] = "Generate.created"
  /\ Respond(c, "201", cjob[c].ShortCode, cjob[c].OriginalURL)
  /\ UNCHANGED <<queueVars, links, workerVars, requests, jobsCap, orphans, snapshot,
                 allowedDomains>>

GenerateShortCodeHandler(c) ==
  \/ \E url \in URLs : GenerateLookup(c, url)
  \/ GenerateCheck(c)
  \/ GenerateRequeue(c)
  \/ GenerateWait(c)
  \/ GenerateOK(c)
  \/ GenerateCreate(c)
  \/ GenerateQueue(c)
  \/ GenerateWaitNew(c)
  \/ GenerateCreated(c)

(* -------------------------- api.RedirectHandler ------------------------ *)

\* lines 266-273, 295-301, for a bot: the response to a link that is not
\* pending or rendering is the stored HTML if the link is completed and has
\* content, else a redirect to link.OriginalURL
BotResponse_AnyCompleted(link) ==
  IF link.RenderStatus = RenderStatusCompleted THEN "html" ELSE "redirect"

BotResponse(link) ==
  IF link.RenderStatus = RenderStatusCompleted /\ link.RenderedHTMLContent # ""
    THEN "html" ELSE "redirect"

\* lines 235-281, for a bot: db.GetLinkByShortCode(shortCode); 404 if there
\* is no such link; a pending or rendering link goes on to WaitForRender,
\* every other link is answered at once
RedirectLookup(c, shortCode) ==
  /\ cpc[c] = "idle"
  /\ requests < MaxRequests
  /\ LET link == GetLinkByShortCode(shortCode)
     IN IF link = NoLink
          THEN /\ outcome' = [outcome EXCEPT ![c] = "404"]
               /\ UNCHANGED <<cpc, cjob>>
          ELSE IF link.RenderStatus \in {RenderStatusPending, RenderStatusRendering}
            THEN /\ cpc' = [cpc EXCEPT ![c] = "Redirect.wait"]
                 /\ cjob' = [cjob EXCEPT ![c] =
                               RenderJob(shortCode, link.OriginalURL)]
                 /\ outcome' = [outcome EXCEPT ![c] = "none"]
            ELSE /\ outcome' = [outcome EXCEPT ![c] = BotResponse(link)]
                 /\ UNCHANGED <<cpc, cjob>>
  /\ requests' = requests + 1
  /\ UNCHANGED <<queueVars, links, workerVars, after, jobsCap, orphans, snapshot,
                 allowedDomains>>

\* lines 235-244: the lookup fails with a database error: 500
RedirectLookupFails(c) ==
  /\ cpc[c] = "idle"
  /\ requests < MaxRequests
  /\ outcome' = [outcome EXCEPT ![c] = "500"]
  /\ requests' = requests + 1
  /\ UNCHANGED <<queueVars, links, workerVars, cpc, cjob, after, jobsCap,
                 orphans, snapshot, allowedDomains>>

\* line 281: WaitForRender(link.OriginalURL, 5*time.Second)
RedirectWait(c) ==
  /\ cpc[c] = "Redirect.wait"
  /\ WaitForRenderEnter(c, cjob[c].OriginalURL, "Redirect.respond")

\* lines 281-293: the response after WaitForRender returned `waited`: the
\* HTML of the link fetched again if the wait returned true and that link
\* is completed and has content, else a redirect to link.OriginalURL
AfterWaitResponse(waited, updatedLink) ==
  IF waited /\ updatedLink # NoLink
    THEN BotResponse(updatedLink) ELSE "redirect"

RedirectRespond(c) ==
  /\ cpc[c] = "Redirect.respond"
  /\ outcome' = [outcome EXCEPT ![c] =
        AfterWaitResponse(WaitResult(c), GetLinkByShortCode(cjob[c].ShortCode))]
  /\ Return(c, "idle")
  /\ UNCHANGED <<queueVars, links, workerVars, requests, jobsCap, orphans, snapshot,
                 allowedDomains>>

\* lines 283-293: the second db.GetLinkByShortCode returns an error
\* (fetchErr != nil): redirect
RedirectRefetchFails(c) ==
  /\ cpc[c] = "Redirect.respond"
  /\ WaitResult(c)
  /\ outcome' = [outcome EXCEPT ![c] = "redirect"]
  /\ Return(c, "idle")
  /\ UNCHANGED <<queueVars, links, workerVars, requests, jobsCap, orphans, snapshot,
                 allowedDomains>>

\* the handler's steps on which the store returns an error
RedirectStoreError(c) ==
  \/ RedirectLookupFails(c)
  \/ RedirectRefetchFails(c)

\* api.RedirectHandler for a bot
RedirectHandler(c) ==
  \/ \E shortCode \in ShortCodes : RedirectLookup(c, shortCode)
  \/ RedirectWait(c)
  \/ RedirectRespond(c)

(* --------------------- the queue driven by the handlers ---------------- *)

\* main: the database is empty, InitRenderQueue has run; in AppSpec the
\* store answers every call without error
AppInit ==
  /\ InitQueue
  /\ jobsCap = Capacity
  /\ links = <<>>
  /\ allowedDomains = AllowAll

AppNext ==
  \/ \E c \in Callers : GenerateShortCodeHandler(c)
  \/ \E c \in Callers : RedirectHandler(c)
  \/ \E c \in Callers : QueueCall(c)
  \/ \E w \in Workers : worker(w)
  \/ Shutdown

AppSpec == AppInit /\ [][AppNext]_vars

(* ------------------------- main: graceful shutdown --------------------- *)

\* main's signal goroutine (lines 40-45) has called Shutdown, which returned
\* after close(rq.jobs), and goes on to os.Exit(0): every goroutine of the
\* process ends where it is
Exit ==
  /\ closed
  /\ \E w \in Workers : wpc[w] # "exited"
  /\ wpc' = [w \in Workers |-> "exited"]
  /\ cpc' = [c \in Callers |-> "exited"]
  /\ UNCHANGED <<queueVars, links, wjob, cjob, after, outcome, requests,
                 jobsCap, orphans, snapshot,
                 allowedDomains>>

MainNext ==
  \/ AppNext
  \/ Exit

\* the server process: handlers, workers and the signal goroutine
MainSpec == AppInit /\ [][MainNext]_vars

(* ------------------ the queue over a store that holds links ------------ *)

\* the table after POST /generate has created a link for every URL
\* (db.CreateLink with status pending and no content)
StoredLinks ==
  <<Link(CodeOf("u1"), "u1", "", RenderStatusPending),
    Link(CodeOf("u2"), "u2", "", RenderStatusPending)>>

\* InitRenderQueue over that table; the store answers every call
StoreInit ==
  /\ InitQueue
  /\ jobsCap = Capacity
  /\ links = StoredLinks
  /\ allowedDomains = AllowAll

StoreNext ==
  \/ \E c \in Callers : Submit(c)
  \/ \E c \in Callers : Await(c)
  \/ \E c \in Callers : QueueCall(c)
  \/ \E w \in Workers : worker(w)
  \/ Shutdown

StoreSpec == StoreInit /\ [][StoreNext]_vars

\* the goroutines that call into the queue in LiveSpec: a submitter and a
\* waiter, or two waiters of one URL
Clients == {c \in Callers : c <= 2}

\* the goroutine that serves the requests
Servers == {c \in Callers : c <= 1}

LiveNext ==
  \/ \E c \in Clients : Submit(c)
  \/ \E c \in Clients : Await(c)
  \/ \E c \in Clients : QueueCall(c)
  \/ \E w \in Workers : worker(w)
  \/ Shutdown

\* scheduling: a worker goroutine that can take a step takes it; it gets
\* rq.mutex however often callers take it in between (sync.RWMutex hands
\* the lock to a starving waiter); a caller that holds rq.mutex inside
\* QueueRender runs on to the deferred Unlock.  Callers are not obliged to
\* call, and a timer is not obliged to fire.
Fairness ==
  /\ \A w \in Workers : WF_vars(worker(w)) /\ SF_vars(WorkerUpdate(w))
  /\ \A c \in Clients : WF_vars(QueueRenderSelect(c))

LiveSpec == StoreInit /\ [][LiveNext]_vars /\ Fairness

(* ---------------------- POST /generate on its own ---------------------- *)

\* two goroutines serve POST /generate over a table that is empty at the
\* start, while the workers run and no signal has arrived
GenNext ==
  \/ \E c \in Clients : GenerateShortCodeHandler(c)
  \/ \E c \in Clients : QueueCall(c)
  \/ \E w \in Workers : worker(w)

GenSpec == AppInit /\ [][GenNext]_vars

(* ------------------ POST /generate with an allow-list ------------------ *)

\* values of ALLOWED_DOMAINS: not set, one domain, two domains, with and
\* without spaces around them, a domain that is a prefix of another, an
\* empty piece, only a space
AllowLists ==
  {<<>>, <<"a">>, <<"a", "b">>, <<"a", ",", "a", "b">>,
   <<" ", "a", "b", " ", ",", "b">>, <<"a", " ", "b">>, <<",", "a">>, <<" ">>}

AllowInit ==
  /\ InitQueue
  /\ jobsCap = Capacity
  /\ links = <<>>
  /\ allowedDomains \in AllowLists

AllowNext ==
  \/ \E c \in Servers : GenerateShortCodeHandler(c)
  \/ \E c \in Servers : QueueCall(c)
  \/ \E w \in Workers : worker(w)
  \/ Shutdown

AllowSpec == AllowInit /\ [][AllowNext]_vars

(* ------------------- bots asking for a stored link --------------------- *)

\* content and status of a link as the code writes them: created (pending,
\* no content), taken by a worker (rendering; the content of an earlier
\* render stays), rendered (completed with the page's HTML, which can be
\* empty), failed (no content)
BotRows ==
  {<<"", RenderStatusPending>>, <<"", RenderStatusRendering>>,
   <<MockHTML, RenderStatusRendering>>, <<MockHTML, RenderStatusCompleted>>,
   <<"", RenderStatusCompleted>>, <<"", RenderStatusFailed>>}

\* the process starts over a table that holds one link
BotInit ==
  /\ InitQueue
  /\ jobsCap = Capacity
  /\ \E r \in BotRows : links = <<Link(CodeOf("u1"), "u1", r[1], r[2])>>
  /\ allowedDomains = AllowAll

\* two goroutines serve bots' requests and submit renders while the workers
\* run; the store can fail the handler's reads
BotNext ==
  \/ \E c \in Clients : Submit(c)
  \/ \E c \in Clients : RedirectHandler(c)
  \/ \E c \in Clients : RedirectStoreError(c)
  \/ \E c \in Clients : QueueCall(c)
  \/ \E w \in Workers : worker(w)
  \/ Shutdown

BotSpec == BotInit /\ [][BotNext]_vars

(* --------------------- the queue with GET /status ---------------------- *)

StatusNext ==
  \/ \E c \in Clients : Submit(c)
  \/ \E c \in Clients : Await(c)
  \/ \E c \in Clients : QueueCall(c)
  \/ \E w \in Workers : worker(w)
  \/ Shutdown
  \/ StatusHandler

StatusSpec == Init /\ [][StatusNext]_vars

(* ----------------- the queue over a store that can fail --------------- *)

FailNext ==
  \/ \E c \in Servers : Submit(c)
  \/ \E c \in Servers : Await(c)
  \/ \E c \in Servers : QueueCall(c)
  \/ \E w \in Workers : worker(w)
  \/ \E w \in Workers : workerStoreError(w)
  \/ Shutdown

\* scheduling as in LiveSpec; a worker's step may be one whose store update
\* returns an error
FailFairness ==
  /\ \A w \in Workers :
       /\ WF_vars(worker(w) \/ workerStoreError(w))
       /\ SF_vars(WorkerUpdate(w) \/ WorkerUpdateFails(w))
  /\ \A c \in Servers : WF_vars(QueueRenderSelect(c))

FailSpec == StoreInit /\ [][FailNext]_vars /\ FailFairness

(* ------------- the queue with more URLs than it has places ------------ *)

\* URLs submitted to the queue: one more than the buffer and the workers
\* can hold together
ManyURLs == URLs \cup {"u3"}

ManyInit ==
  /\ jobs = <<>>
  /\ closed = FALSE
  /\ inProgress = {}
  /\ waiting = [u \in ManyURLs |-> <<>>]
  /\ mutex = Unlocked
  /\ waitChan = [c \in Callers |-> 0]
  /\ wpc = [w \in Workers |-> "range"]
  /\ wjob = [w \in Workers |-> NoJob]
  /\ cpc = [c \in Callers |-> "idle"]
  /\ cjob = [c \in Callers |-> NoJob]
  /\ after = [c \in Callers |-> "idle"]
  /\ outcome = [c \in Callers |-> "none"]
  /\ requests = 0
  /\ orphans = 0
  /\ snapshot = <<>>
  /\ jobsCap = Capacity
  /\ links = <<>>
  /\ allowedDomains = AllowAll

\* a goroutine calls rq.QueueRender(shortCode, originalURL)
SubmitAny(c) ==
  /\ cpc[c] = "idle"
  /\ \E u \in ManyURLs : QueueRenderEnter(c, CodeOf(u), u, "idle")

ManyNext ==
  \/ \E c \in Servers : SubmitAny(c)
  \/ \E c \in Servers : Await(c)
  \/ \E c \in Servers : QueueCall(c)
  \/ \E w \in Workers : worker(w)
  \/ Shutdown
  \/ StatusHandler

ManySpec == ManyInit /\ [][ManyNext]_vars

(* --------------- the five operations of the queue together ------------ *)

LockNext ==
  \/ \E c \in Clients : Submit(c)
  \/ \E c \in Clients : Await(c)
  \/ \E c \in Clients : IsInProgressCall(c)
  \/ \E c \in Clients : QueueCall(c)
  \/ \E w \in Workers : worker(w)
  \/ Shutdown
  \/ StatusHandler

LockSpec == Init /\ [][LockNext]_vars

(* ------------- the queue with renders that outlive their timeout ------- *)

\* how many abandoned renderWithRod goroutines are followed
MaxOrphans == 2

\* renderer.go lines 46, 54-56: ctx.Done() wins the select, RenderPageWithRod
\* returns the timeout error to the worker while the goroutine of lines 33-43
\* is still inside renderWithRod(url) (the context is not handed to rod);
\* queue.go lines 138-148: the worker locks and records the failure
WorkerRenderTimeout(w) ==
  /\ wpc[w] = "render"
  /\ LockFree
  /\ orphans < MaxOrphans
  /\ orphans' = orphans + 1
  /\ mutex' = ByWorker(w)
  /\ links' = TerminalUpdate(links, wjob[w], "error")
  /\ wpc' = [wpc EXCEPT ![w] = "notify"]
  /\ UNCHANGED <<jobs, closed, inProgress, waiting, waitChan, wjob,
                 callerVars, requests, jobsCap, snapshot,
                 allowedDomains>>

\* renderer.go lines 34-42: renderWithRod returns in an abandoned goroutine,
\* whose select takes <-ctx.Done() and ends
RenderGoroutineEnds ==
  /\ orphans > 0
  /\ orphans' = orphans - 1
  /\ UNCHANGED <<queueVars, links, workerVars, callerVars, requests, jobsCap,
                 snapshot, allowedDomains>>

ExecNext ==
  \/ StoreNext
  \/ \E w \in Workers : WorkerRenderTimeout(w)
  \/ RenderGoroutineEnds

ExecSpec == StoreInit /\ [][ExecNext]_vars

(* ------------------ renderer.RenderPageWithRod, step by step ----------- *)

\* renderer.go lines 27-30: make(chan struct{html; err}, 1)
ResultChanCap == 1

\* positions of a worker inside RenderPageWithRod after the goroutine of
\* lines 33-43 has put its result in resultChan
Delivered == {"resultChan.ok", "resultChan.error"}

\* positions of a worker at which RenderPageWithRod has returned and the
\* Lock of queue.go line 138 is still to come
Returned == {"returned.ok", "returned.error"}

\* positions of a worker inside RenderPageWithRod
InRod == {"render"} \cup Delivered

DeliverReady_Unbuffered(receiving, buffered, done) == receiving

\* lines 35-42: the select of the goroutine has a case that can run: the
\* send on resultChan (a receiver is waiting or the buffer has room) or
\* <-ctx.Done()
DeliverReady(receiving, buffered, done) ==
  receiving \/ buffered < ResultChanCap \/ done

\* lines 34-40: renderWithRod returns html or err and the goroutine sends
\* the result on resultChan before the timer has fired
RodDeliver(w, err) ==
  /\ wpc[w] = "render"
  /\ DeliverReady(TRUE, 0, FALSE)
  /\ wpc' = [wpc EXCEPT ![w] = IF err = "ok" THEN "resultChan.ok"
                                            ELSE "resultChan.error"]
  /\ UNCHANGED <<queueVars, links, wjob, callerVars, requests, jobsCap,
                 orphans, snapshot, allowedDomains>>

\* lines 46-53: case result := <-resultChan, return result.html, result.err;
\* the deferred cancel runs
RodReceive(w) ==
  /\ wpc[w] \in Delivered
  /\ wpc' = [wpc EXCEPT ![w] = IF wpc[w] = "resultChan.ok"
                                 THEN "returned.ok" ELSE "returned.error"]
  /\ UNCHANGED <<queueVars, links, wjob, callerVars, requests, jobsCap,
                 orphans, snapshot, allowedDomains>>

\* lines 54-56: case <-ctx.Done(), return "", a timeout error.  If the
\* goroutine is still inside renderWithRod it goes on without a receiver;
\* if its result is already in resultChan both cases of the select are ready
\* and this one was chosen
RodTimeout(w) ==
  /\ wpc[w] \in InRod
  /\ IF wpc[w] = "render"
       THEN orphans < MaxOrphans /\ orphans' = orphans + 1
       ELSE orphans' = orphans
  /\ wpc' = [wpc EXCEPT ![w] = "returned.error"]
  /\ UNCHANGED <<queueVars, links, wjob, callerVars, requests, jobsCap,
                 snapshot, allowedDomains>>

\* lines 34-42: renderWithRod returns in a goroutine whose caller has
\* returned on the timeout: nobody receives, resultChan is empty, ctx is done
RodGoroutineEnds ==
  /\ orphans > 0
  /\ DeliverReady(FALSE, 0, TRUE)
  /\ orphans' = orphans - 1
  /\ UNCHANGED <<queueVars, links, workerVars, callerVars, requests, jobsCap,
                 snapshot, allowedDomains>>

\* queue.go lines 138-158: the worker locks and records what
\* RenderPageWithRod returned
RodRecord(w) ==
  /\ wpc[w] \in Returned
  /\ LockFree
  /\ mutex' = ByWorker(w)
  /\ links' = TerminalUpdate(links, wjob[w],
                             IF wpc[w] = "returned.ok" THEN "ok" ELSE "error")
  /\ wpc' = [wpc EXCEPT ![w] = "notify"]
  /\ UNCHANGED <<jobs, closed, inProgress, waiting, waitChan, wjob,
                 callerVars, requests, jobsCap, orphans, snapshot,
                 allowedDomains>>

RenderPageWithRod(w) ==
  \/ \E err \in RenderResults : RodDeliver(w, err)
  \/ RodReceive(w)
  \/ RodTimeout(w)

RodNext ==
  \/ \E c \in Servers : Submit(c)
  \/ \E c \in Servers : Await(c)
  \/ \E c \in Servers : QueueCall(c)
  \/ \E w \in Workers : WorkerReceive(w)
  \/ \E w \in Workers : WorkerStop(w)
  \/ \E w \in Workers : WorkerSetRendering(w)
  \/ \E w \in Workers : RenderPageWithRod(w)
  \/ \E w \in Workers : RodRecord(w)
  \/ \E w \in Workers : WorkerNotify(w)
  \/ \E w \in Workers : WorkerClear(w)
  \/ RodGoroutineEnds
  \/ Shutdown

\* scheduling: the timer of context.WithTimeout fires, and a goroutine that
\* can run its select runs it
RodFairness == \A w \in Workers : WF_vars(RodTimeout(w))

RodSpec == StoreInit /\ [][RodNext]_vars /\ RodFairness

(* ---------------------- state functions for the claims ----------------- *)

\* positions of the buffer that hold a job for url
Buffered(url) == {i \in 1..Len(jobs) : jobs[i].OriginalURL = url}

\* workers that hold a job for url (received and not yet cleared)
Holding(url) == {w \in Workers : wjob[w].OriginalURL = url}

\* the jobs for url that are admitted and not completed
Admitted(url) == Cardinality(Buffered(url)) + Cardinality(Holding(url))

\* callers inside QueueRender between line 58 and the select, for url
Marking(url) ==
  {c \in Callers : cpc[c] = "QueueRender.select" /\ cjob[c].OriginalURL = url}

\* callers inside WaitForRender for url: blocked in the select or on their way
\* to the cleanup
InAwait(url) ==
  {c \in Callers : /\ cpc[c] \in {"WaitForRender.select", "WaitForRender.cleanup"}
                   /\ cjob[c].OriginalURL = url}

(* -------------------------------- C1 ----------------------------------- *)

\* C1: dedup. In every state the buffer and the workers together hold at
\* most one job per URL, whatever the interleaving of QueueRender calls.
C1_Dedup == \A u \in URLs : Admitted(u) <= 1

\* a duplicate submit has returned while the job of its URL is admitted and
\* the buffer has room: it is the in-flight check that kept it out
C1_Witness ==
  \E c \in Callers, u \in URLs :
    /\ outcome[c] = "duplicate"
    /\ cpc[c] = "idle"
    /\ Admitted(u) = 1
    /\ Len(jobs) < jobsCap

(* -------------------------------- C2 ----------------------------------- *)

\* C2: rollback on full buffer. Whenever QueueRender reaches its select for
\* a URL that was not in flight and the buffer is full, the call
\* ends with the buffer unchanged and the URL not in rq.inProgress; and the
\* marker of line 58 exists only while the caller holds rq.mutex.
C2_RollbackOnFullBuffer ==
  /\ [][\A c \in Callers :
          (cpc[c] = "QueueRender.select" /\ cpc'[c] # cpc[c]
             /\ Len(jobs) >= jobsCap)
          => (jobs' = jobs /\ cjob[c].OriginalURL \notin inProgress')]_vars
  /\ [](\A c \in Callers :
          cpc[c] = "QueueRender.select" => mutex = ByCaller(c))

(* -------------------------------- C3 ----------------------------------- *)

\* C3: post-shutdown safety. No QueueRender call panics, and once rq.jobs is
\* closed no call reaches the send of line 64.
C3_PostShutdownSafety ==
  \A c \in Callers :
    /\ cpc[c] # "panic"
    /\ closed => cpc[c] # "QueueRender.select"

(* -------------------------------- C4 ----------------------------------- *)

\* C4: in-flight invariant. Whenever rq.mutex is free, a URL is in
\* rq.inProgress if and only if exactly one job for it is in the buffer or
\* held by a worker.
C4_InFlightInvariant ==
  mutex = Unlocked =>
    \A u \in URLs : (u \in inProgress) <=> (Admitted(u) = 1)

(* -------------------------------- C5 ----------------------------------- *)

\* the render of url has finished: a row of the store for it is completed
\* or failed
Finished(url) ==
  \E i \in 1..Len(links) :
    links[i].OriginalURL = url /\ links[i].RenderStatus \in Terminal

\* C5: at most one render per URL. Once the render of a URL has finished, no
\* job for that URL is in the buffer and no worker is about to render it: the
\* only worker that may hold its job is the one that has just recorded the
\* result and is notifying or clearing.
C5_RenderAtMostOnce ==
  \A u \in URLs :
    Finished(u) =>
      /\ Buffered(u) = {}
      /\ \A w \in Holding(u) : wpc[w] \in {"notify", "clear"}

(* -------------------------------- C6 ----------------------------------- *)

\* C6: no wait needed. A WaitForRender call for a URL that is not in
\* rq.inProgress returns at once with false, registers no channel and
\* leaves the queue as it was.
C6_NoWaitNeeded ==
  [][\A c \in Callers, u \in URLs :
       (cpc[c] = "idle" /\ u \notin inProgress
          /\ WaitForRenderEnter(c, u, "idle"))
       => /\ cpc'[c] = "idle"
          /\ outcome'[c] = "nowait"
          /\ ~WaitResult(c)'
          /\ UNCHANGED queueVars]_vars

\* a call returned "no wait needed" for a URL that is not in flight
C6_Witness ==
  \E c \in Callers :
    /\ cpc[c] = "idle"
    /\ outcome[c] = "nowait"
    /\ \E u \in URLs : u \notin inProgress /\ waiting[u] = <<>>

(* -------------------------------- C7 ----------------------------------- *)

\* C7: wait/notify. A waiter returns true only after the worker's notify
\* for its URL (its channel holds the signal and has left the registry); a
\* waiter whose signal arrived before its timer can only return true, and
\* can do so; a waiter goes to the timeout path only without a signal.
C7_WaitNotify ==
  /\ [][\A c \in Callers :
          /\ (cpc[c] = "WaitForRender.select" /\ WaitResult(c)')
               => /\ waitChan[c] = 1
                  /\ c \notin Range(waiting[cjob[c].OriginalURL])
          /\ (cpc[c] = "WaitForRender.select" /\ waitChan[c] = 1
                /\ cpc'[c] # cpc[c])
               => WaitResult(c)'
          /\ (cpc[c] = "WaitForRender.select"
                /\ cpc'[c] = "WaitForRender.cleanup")
               => /\ waitChan[c] = 0
                  /\ c \in Range(waiting[cjob[c].OriginalURL])]_vars
  /\ [](\A c \in Callers :
          (cpc[c] = "WaitForRender.select" /\ waitChan[c] = 1)
            => ENABLED WaitForRenderSignal(c))

\* a waiter has returned true and the job it waited for is done
C7_Witness ==
  \E c \in Callers :
    /\ cpc[c] = "idle"
    /\ outcome[c] = "completed"
    /\ \E w \in Workers : wpc[w] = "range"

(* -------------------------------- C8 ----------------------------------- *)

\* C8: fan-out. The worker's notify step leaves a signal in the channel of
\* every registered waiter still blocked in its select, and a blocked waiter
\* is always either registered for a URL in flight or holds its signal.
C8_FanOut ==
  /\ [][\A w \in Workers :
          (wpc[w] = "notify" /\ wpc'[w] = "clear")
          => \A c \in Range(waiting[wjob[w].OriginalURL]) :
               cpc[c] = "WaitForRender.select" => waitChan'[c] = 1]_vars
  /\ [](\A c \in Callers :
          cpc[c] = "WaitForRender.select"
            => \/ waitChan[c] = 1
               \/ /\ c \in Range(waiting[cjob[c].OriginalURL])
                  /\ cjob[c].OriginalURL \in inProgress)

\* two waiters of the same URL both hold the signal of its job
C8_Witness ==
  \E c1, c2 \in Callers :
    /\ c1 # c2
    /\ cjob[c1].OriginalURL = cjob[c2].OriginalURL
    /\ cpc[c1] = "WaitForRender.select" /\ waitChan[c1] = 1
    /\ cpc[c2] = "WaitForRender.select" /\ waitChan[c2] = 1

(* -------------------------------- C9 ----------------------------------- *)

\* C9: atomic completion. The worker holds rq.mutex from its notify to the
\* clearing of rq.inProgress, and a URL has registered waiters only while it
\* is in rq.inProgress.
C9_AtomicCompletion ==
  /\ \A w \in Workers : wpc[w] \in {"notify", "clear"} => mutex = ByWorker(w)
  /\ \A u \in URLs : waiting[u] # <<>> => u \in inProgress

\* a worker has notified a waiter and not yet cleared the URL, while another
\* caller is idle and could call WaitForRender
C9_Witness ==
  \E w \in Workers, c1, c2 \in Callers :
    /\ wpc[w] = "clear"
    /\ cpc[c1] = "WaitForRender.select" /\ waitChan[c1] = 1
    /\ cpc[c2] = "idle"

(* -------------------------------- C10 ---------------------------------- *)

\* C10: timeout self-cleanup. When a timed-out WaitForRender returns, its
\* channel is in no list of the registry, and every channel in the registry
\* of a URL belongs to a caller inside WaitForRender for that URL, once.
C10_TimeoutSelfCleanup ==
  /\ [][\A c \in Callers :
          (cpc[c] = "WaitForRender.cleanup" /\ cpc'[c] # cpc[c])
          => /\ outcome'[c] = "timedout"
             /\ \A u \in URLs : c \notin Range(waiting'[u])]_vars
  /\ [](\A u \in URLs :
          /\ Range(waiting[u]) \subseteq InAwait(u)
          /\ Cardinality(Range(waiting[u])) = Len(waiting[u]))

\* a waiter timed out and returned while the other waiter of the same URL
\* is still registered
C10_Witness ==
  \E c1, c2 \in Callers, u \in URLs :
    /\ cpc[c1] = "idle" /\ outcome[c1] = "timedout"
    /\ waiting[u] = <<c2>>
    /\ u \in inProgress

(* -------------------------------- C11 ---------------------------------- *)

RowOf(url) == GetLinkByShortCode(CodeOf(url))

\* C12: a timeout cancels only the waiting. The steps of a timed-out
\* WaitForRender (timer, cleanup, return) leave the buffer, rq.inProgress,
\* the workers, the store and every other waiter's channel and registration
\* as they were; a URL with an admitted job is in rq.inProgress; and the job
\* of a URL whose waiter timed out is still run to its end: the store gets
\* the terminal status and the job leaves the queue.
C12_TimeoutCancelsOnlyWait ==
  /\ [][\A c \in Callers :
          (/\ cpc[c] \in {"WaitForRender.select", "WaitForRender.cleanup"}
           /\ cpc'[c] # cpc[c]
           /\ ~WaitResult(c)')
          => /\ UNCHANGED <<jobs, closed, inProgress, links, wpc, wjob>>
             /\ \A d \in Callers \ {c} :
                  /\ waitChan'[d] = waitChan[d]
                  /\ \A u \in URLs :
                       (d \in Range(waiting'[u])) <=> (d \in Range(waiting[u]))]_vars
  /\ [](\A u \in URLs : Admitted(u) = 1 => u \in inProgress)
  /\ \A c \in Clients, u \in URLs :
       (cpc[c] = "WaitForRender.cleanup" /\ cjob[c].OriginalURL = u
          /\ Admitted(u) = 1)
       ~> (RowOf(u).RenderStatus \in Terminal /\ Admitted(u) = 0)

\* one waiter of a URL timed out and returned, the render went on, the other
\* waiter was released by it and the store holds the terminal status; no
\* other URL was ever admitted
C12_Witness ==
  \E c1, c2 \in Clients, u \in URLs :
    /\ cpc[c1] = "idle" /\ outcome[c1] = "timedout"
    /\ cpc[c2] = "idle" /\ outcome[c2] = "completed"
    /\ ~closed /\ inProgress = {}
    /\ RowOf(u).RenderStatus \in Terminal
    /\ \A v \in URLs \ {u} : RowOf(v).RenderStatus = RenderStatusPending

(* -------------------------------- C13 ---------------------------------- *)

\* the job worker w holds is recorded as failed, with empty content
FailedJob(w) ==
  LET row == GetLinkByShortCode(wjob[w].ShortCode)
  IN row.RenderStatus = RenderStatusFailed /\ row.RenderedHTMLContent = ""

\* C13: a failed render is a completion. When RenderPageWithRod returns an
\* error the worker stores failed with empty content for the job's short
\* code; it then signals every blocked waiter of the URL, empties the URL's
\* registry entry, removes the URL from rq.inProgress and goes back to the
\* channel without the job; no worker step puts a job into the buffer, and a
\* worker starts a render only for a job it has just received.
C13_FailureCompletes ==
  [][\A w \in Workers :
       /\ WorkerRecord(w, "error")
            => \A i \in 1..Len(links') :
                 links'[i].ShortCode = wjob[w].ShortCode
                   => /\ links'[i].RenderStatus = RenderStatusFailed
                      /\ links'[i].RenderedHTMLContent = ""
       /\ (wpc[w] = "notify" /\ wpc'[w] # wpc[w] /\ FailedJob(w))
            => /\ wpc'[w] = "clear"
               /\ waiting'[wjob[w].OriginalURL] = <<>>
               /\ \A c \in Range(waiting[wjob[w].OriginalURL]) :
                    cpc[c] = "WaitForRender.select" => waitChan'[c] = 1
       /\ (wpc[w] = "clear" /\ wpc'[w] # wpc[w] /\ FailedJob(w))
            => /\ wpc'[w] = "range"
               /\ wjob'[w] = NoJob
               /\ wjob[w].OriginalURL \notin inProgress'
               /\ jobs' = jobs /\ links' = links
       /\ wpc'[w] # wpc[w] => Len(jobs') <= Len(jobs)
       /\ (wpc'[w] # wpc[w] /\ wpc'[w] = "status") => wpc[w] = "range"
       /\ (wpc'[w] # wpc[w] /\ wpc'[w] = "render") => wpc[w] = "status"]_vars

\* a render failed: the store holds failed with no content, the waiter of
\* the URL has its signal, and the worker is about to clear the URL
C13_Witness ==
  \E w \in Workers, c \in Callers :
    /\ wpc[w] = "clear"
    /\ FailedJob(w)
    /\ RowOf(wjob[w].OriginalURL).RenderStatus = RenderStatusFailed
    /\ cpc[c] = "WaitForRender.select"
    /\ cjob[c].OriginalURL = wjob[w].OriginalURL
    /\ waitChan[c] = 1

(* -------------------------------- C14 ---------------------------------- *)

\* C14: shutdown drains. Once Shutdown has been called every job that was
\* in the buffer or at a worker is processed to its end: the process does
\* not end while a job is buffered or held by a worker.
C14_ShutdownDrains ==
  \A w \in Workers :
    wpc[w] = "exited" => (jobs = <<>> /\ wjob[w] = NoJob)

(* -------------------------------- C15 ---------------------------------- *)

\* C15: FIFO dispatch. The buffer only grows at its tail, by the job of the
\* submit that was admitted, and only shrinks at its head, by a worker that
\* was waiting for a job and now holds the oldest one; no step reorders it.
\* So a job admitted before another is pulled before it.
C15_FifoDispatch ==
  [][/\ Len(jobs') > Len(jobs)
          => /\ Len(jobs') = Len(jobs) + 1
             /\ SubSeq(jobs', 1, Len(jobs)) = jobs
             /\ \E c \in Callers :
                  /\ cpc[c] = "QueueRender.select"
                  /\ jobs'[Len(jobs')] = cjob[c]
                  /\ outcome'[c] = "queued"
     /\ Len(jobs') < Len(jobs)
          => /\ jobs' = Tail(jobs)
             /\ \E w \in Workers :
                  wpc[w] = "range" /\ wpc'[w] = "status" /\ wjob'[w] = Head(jobs)
     /\ Len(jobs') = Len(jobs) => jobs' = jobs
     /\ \A w \in Workers :
          (wpc[w] = "range" /\ wpc'[w] = "status")
            => wjob'[w] = Head(jobs) /\ jobs' = Tail(jobs)]_vars

\* two submits were admitted, a worker has pulled one job and the other is
\* still in a buffer that had room for both
C15_Witness ==
  \E c1, c2 \in Callers, w \in Workers :
    /\ c1 # c2
    /\ cpc[c1] = "idle" /\ outcome[c1] = "queued"
    /\ cpc[c2] = "idle" /\ outcome[c2] = "queued"
    /\ jobsCap > 1
    /\ Len(jobs) = 1
    /\ wpc[w] = "status"
    /\ wjob[w].OriginalURL # jobs[1].OriginalURL

(* -------------------------------- C16 ---------------------------------- *)

\* the renders that are running: the workers inside RenderPageWithRod and
\* the renderWithRod goroutines whose call already returned a timeout
RunningRenders ==
  Cardinality({w \in Workers : wpc[w] = "render"}) + orphans

\* C16: pool size is the only throttle. With NumWorkers workers at most
\* NumWorkers renders run at the same time, the renders whose executor call
\* already returned a timeout error to the worker included.
C16_PoolSizeThrottle == RunningRenders <= NumWorkers

(* -------------------------------- C17 ---------------------------------- *)

Registered == {c \in Callers : \E u \in URLs : c \in Range(waiting[u])}

\* C18: snapshot accuracy. The map a status call returns holds the number
\* of workers, the number of jobs in the buffer, the size and the exact
\* contents of the in-flight set and the number of registered wait channels
\* over all URLs, all of the one state in which the call was made, in which
\* no writer held rq.mutex; the call changes nothing in the queue, the store,
\* the workers or the callers.
C18_SnapshotAccuracy ==
  [][(snapshot' # snapshot /\ snapshot' # <<>>)
       => /\ mutex = Unlocked
          /\ snapshot'[1].worker_count = Cardinality(Workers)
          /\ snapshot'[1].queue_length = Len(jobs)
          /\ snapshot'[1].in_progress_urls = inProgress
          /\ snapshot'[1].in_progress_count = Cardinality(inProgress)
          /\ snapshot'[1].waiting_goroutines = Cardinality(Registered)
          /\ UNCHANGED <<queueVars, links, workerVars, callerVars, requests,
                         jobsCap, orphans>>]_vars

\* the status of a queue with two jobs in the buffer, both URLs in flight,
\* the workers not yet having taken one, and two waiters of one URL
C18_Witness ==
  /\ snapshot # <<>>
  /\ snapshot[1].worker_count = NumWorkers
  /\ snapshot[1].queue_length = 2
  /\ snapshot[1].in_progress_count = 2
  /\ snapshot[1].waiting_goroutines = 2
  /\ \E u \in URLs : Len(waiting[u]) = 2

(* -------------------------------- C19 ---------------------------------- *)

\* the handler of a POST /generate that created the link is blocked in the
\* select of WaitForRender while its job is in the buffer or with a worker
AwaitsOwnRender(c) ==
  /\ cpc[c] = "WaitForRender.select"
  /\ after[c] = "Generate.created"
  /\ waitChan[c] = 0
  /\ Admitted(cjob[c].OriginalURL) > 0

\* C19: for a URL that is not stored yet, POST /generate saves the link as
\* pending, queues the render and responds at once: the handler never waits
\* for the render job to start or to complete before it responds.
C19_ImmediateResponse == \A c \in Callers : ~AwaitsOwnRender(c)

(* -------------------------------- C20 ---------------------------------- *)

\* the link is completed and has content
Servable(link) ==
  link.RenderStatus = RenderStatusCompleted /\ link.RenderedHTMLContent # ""

\* C20: fallback for bots. A bot that asks for an existing short code gets
\* the rendered HTML only if the link it read is completed with content,
\* at once or after WaitForRender returned true; a link that is pending or
\* rendering makes the handler wait first; in every other case (failed,
\* completed without content, the wait timed out or was not needed, the link
\* still not servable after the wait) the response is the redirect, and it
\* is never an error.
C20_BotFallback ==
  [][\A c \in Callers :
       /\ \A sc \in ShortCodes :
            (RedirectLookup(c, sc) /\ GetLinkByShortCode(sc) # NoLink)
              => LET link == GetLinkByShortCode(sc)
                 IN /\ outcome'[c] \in {"html", "redirect", "none"}
                    /\ outcome'[c] = "html" <=> Servable(link)
                    /\ outcome'[c] = "none"
                         <=> link.RenderStatus \in {RenderStatusPending,
                                                    RenderStatusRendering}
                    /\ outcome'[c] = "none" <=> cpc'[c] = "Redirect.wait"
       /\ (cpc[c] = "Redirect.respond" /\ cpc'[c] # cpc[c])
            => LET link == GetLinkByShortCode(cjob[c].ShortCode)
               IN /\ cpc'[c] = "idle"
                  /\ outcome'[c] \in {"html", "redirect"}
                  /\ outcome'[c] = "html"
                       => outcome[c] = "completed" /\ Servable(link)
                  /\ outcome[c] \in {"timedout", "nowait"}
                       => outcome'[c] = "redirect"
                  /\ ~Servable(link) => outcome'[c] = "redirect"]_vars

\* one bot was served the HTML; the link was rendered again and failed,
\* and another bot was redirected
C20_Witness ==
  \E c1, c2 \in Callers :
    /\ cpc[c1] = "idle" /\ outcome[c1] = "html"
    /\ cpc[c2] = "idle" /\ outcome[c2] = "redirect"
    /\ RowOf("u1").RenderStatus = RenderStatusFailed

(* -------------------------------- C21 ---------------------------------- *)

\* caller c serves a POST /generate that has created its link and has not
\* responded yet (handlers.go lines 181-222, the queue calls included)
InNewPath(c) ==
  \/ cpc[c] \in {"Generate.queue", "Generate.waitNew", "Generate.created"}
  \/ cpc[c] \in {"QueueRender.select", "panic"} /\ after[c] = "Generate.waitNew"
  \/ /\ cpc[c] \in {"WaitForRender.select", "WaitForRender.cleanup"}
     /\ after[c] = "Generate.created"

\* C21: POST /generate for a URL that is not stored creates exactly one link,
\* pending and without content, before it submits the job (the table grows
\* only by such a step, by one row, with the queue untouched), and the
\* request ends with 201 and the short code and URL of that link, whatever
\* became of the render.
C21_CreatedThenAnswered ==
  [][\A c \in Callers :
       /\ (cpc[c] = "Generate.create" /\ cpc'[c] = "Generate.queue")
            => /\ links' = Append(links, Link(cjob'[c].ShortCode,
                                              cjob[c].OriginalURL, "",
                                              RenderStatusPending))
               /\ cjob'[c].OriginalURL = cjob[c].OriginalURL
               /\ GetLinkByShortCode(cjob'[c].ShortCode) = NoLink
               /\ UNCHANGED queueVars
       /\ Len(links') # Len(links)
            => \E d \in Callers :
                 cpc[d] = "Generate.create" /\ cpc'[d] = "Generate.queue"
       /\ (InNewPath(c) /\ cpc'[c] = "idle")
            => /\ outcome'[c] = "201"
               /\ cjob'[c] = cjob[c]
               /\ GetLinkByShortCode(cjob'[c].ShortCode).OriginalURL
                    = cjob'[c].OriginalURL]_vars

(* -------------------------------- C22 ---------------------------------- *)

\* C22: POST /generate for a URL whose stored link is completed or failed
\* answers 200 with the short code of that link at once and has no side
\* effect: the table, the buffer, the in-flight set, the registry of waiters,
\* the wait channels and the workers are as before.
C22_FinishedLinkNoEffect ==
  [][\A c \in Callers, url \in URLs :
       (/\ GenerateLookup(c, url)
        /\ GetLinkByOriginalURL(url) # NoLink
        /\ GetLinkByOriginalURL(url).RenderStatus
             \in {RenderStatusCompleted, RenderStatusFailed})
         => /\ cpc'[c] = "idle"
            /\ outcome'[c] = "200"
            /\ cjob'[c] = RenderJob(GetLinkByOriginalURL(url).ShortCode, url)
            /\ UNCHANGED <<queueVars, links, workerVars>>]_vars

\* a link was created and its render failed; the URL was posted again and
\* answered with the link's short code, the queue being idle
C22_Witness ==
  \E c \in Callers :
    /\ cpc[c] = "idle" /\ outcome[c] = "200"
    /\ requests = 2
    /\ GetLinkByShortCode(cjob[c].ShortCode).RenderStatus = RenderStatusFailed
    /\ GetLinkByShortCode(cjob[c].ShortCode).OriginalURL = cjob[c].OriginalURL
    /\ Len(links) = 1
    /\ inProgress = {}
    /\ jobs = <<>>
    /\ \A w \in Workers : wpc[w] = "range"

(* -------------------------------- C23 ---------------------------------- *)

\* the hostname h is one of the comma-separated domains of the string s,
\* spaces around a domain not counting: s[a..b] is a piece between commas
\* and s[p..q] is h with only spaces before and after it in the piece
InList(h, s) ==
  \E a \in 1..(Len(s) + 1), b \in 0..Len(s) :
    /\ a <= b + 1
    /\ a = 1 \/ s[a - 1] = ","
    /\ b = Len(s) \/ s[b + 1] = ","
    /\ \A k \in a..b : s[k] # ","
    /\ \E p \in a..(b + 1) :
         LET q == p + Len(h) - 1
         IN /\ q <= b
            /\ \A k \in a..(p - 1) : s[k] = " "
            /\ \A k \in (q + 1)..b : s[k] = " "
            /\ \A k \in 1..Len(h) : s[p + k - 1] = h[k]

\* C23: domain allow-list. With a non-empty allow-list POST /generate for a
\* URL whose hostname is not in the list answers 403 and leaves the table,
\* the queue and the workers unchanged; a hostname in the list, and every
\* hostname when the list is empty, is not answered 403.
C23_AllowList ==
  [][\A c \in Callers, url \in URLs :
       GenerateLookup(c, url)
         => IF allowedDomains # <<>> /\ ~InList(Hostname(url), allowedDomains)
              THEN /\ outcome'[c] = "403"
                   /\ cpc'[c] = "idle"
                   /\ UNCHANGED <<queueVars, links, workerVars>>
              ELSE outcome'[c] # "403"]_vars

\* with a list that names one of the two hostnames, a link was stored for
\* the one and the other was refused
C23_Witness ==
  \E c \in Callers :
    /\ allowedDomains # <<>>
    /\ cpc[c] = "idle"
    /\ outcome[c] = "403"
    /\ Len(links) = 1
    /\ \E u \in URLs : ~InList(Hostname(u), allowedDomains)
    /\ InList(Hostname(links[1].OriginalURL), allowedDomains)

(* -------------------------------- C24 ---------------------------------- *)

\* C24: a dropped job is silent and final. The step that drops a job leaves
\* the buffer, the workers, the store, the waiter registry and the wait
\* channels as they are and ends with the URL not in flight and no job for it
\* anywhere. A job enters the buffer only by a submit that ends as queued, a
\* worker holds only a job it took from the buffer, a row of the store
\* changes only for the job a worker holds, and a wait channel is signalled
\* only by the worker that holds a job for the URL the waiter is registered
\* under: so no worker pulls or renders the dropped job, its row keeps its
\* status and nobody is signalled for it.
C24_DropIsFinal ==
  [][/\ \A c \in Callers :
          (cpc[c] = "QueueRender.select" /\ outcome'[c] = "dropped")
            => /\ UNCHANGED <<jobs, closed, links, workerVars, waiting, waitChan>>
               /\ cjob[c].OriginalURL \notin inProgress'
               /\ \A i \in 1..Len(jobs') :
                    jobs'[i].OriginalURL # cjob[c].OriginalURL
               /\ \A w \in Workers :
                    wjob'[w].OriginalURL # cjob[c].OriginalURL
               /\ cpc'[c] = after[c]
     /\ Len(jobs') > Len(jobs)
          => \E c \in Callers :
               /\ cpc[c] = "QueueRender.select"
               /\ outcome'[c] = "queued"
               /\ jobs' = Append(jobs, cjob[c])
     /\ \A w \in Workers :
          (wjob'[w] # wjob[w] /\ wjob'[w] # NoJob)
            => jobs # <<>> /\ wjob'[w] = Head(jobs) /\ jobs' = Tail(jobs)
     /\ \A i \in 1..Len(links) :
          links'[i] # links[i]
            => \E w \in Workers :
                 /\ wpc[w] \in {"status", "render"}
                 /\ wjob[w].ShortCode = links[i].ShortCode
     /\ \A c \in Callers :
          waitChan'[c] > waitChan[c]
            => \E w \in Workers :
                 /\ wpc[w] = "notify"
                 /\ c \in Range(waiting[wjob[w].OriginalURL])]_vars

\* a submit was dropped on the full buffer: its URL is not in flight, no
\* job for it exists and its row is still pending
C24_Witness ==
  \E c \in Callers, u \in URLs :
    /\ cpc[c] = "idle"
    /\ outcome[c] = "dropped"
    /\ Len(jobs) = jobsCap
    /\ u \notin inProgress
    /\ Admitted(u) = 0
    /\ RowOf(u).RenderStatus = RenderStatusPending

(* -------------------------------- C25 ---------------------------------- *)

\* the steps of a worker's loop in the order of the code
WorkerOrder ==
  {<<"range", "status">>, <<"status", "render">>, <<"render", "notify">>,
   <<"notify", "clear">>, <<"clear", "range">>, <<"range", "stopped">>}

\* C25: progress of admitted jobs. While workers are scheduled fairly and
\* every render returns, a job in the buffer is eventually held by a worker
\* and the URL of an admitted job is eventually absent from the in-flight set
\* again. A job is taken from the head of the buffer by one worker only, and
\* the worker that holds it goes once through set-rendering, render, notify
\* and clear with that job and gives it up at the clear.
C25_Progress ==
  /\ \A u \in URLs :
       /\ (Buffered(u) # {}) ~> (Holding(u) # {})
       /\ (Admitted(u) > 0) ~> (u \notin inProgress)
  /\ [][\A w \in Workers :
         /\ wpc'[w] # wpc[w] => <<wpc[w], wpc'[w]>> \in WorkerOrder
         /\ wjob'[w] # wjob[w]
              => \/ /\ wpc[w] = "range"
                    /\ jobs # <<>>
                    /\ wjob'[w] = Head(jobs)
                    /\ jobs' = Tail(jobs)
                    /\ \A v \in Workers \ {w} : wjob'[v] = wjob[v]
                 \/ wpc[w] = "clear" /\ wjob'[w] = NoJob]_vars

\* a job is in the buffer behind the job a worker is rendering: the second
\* admitted job has to wait for the worker to finish the first
C25_Witness ==
  \E u \in URLs, w \in Workers :
    /\ Buffered(u) # {}
    /\ u \in inProgress
    /\ wpc[w] = "render"
    /\ wjob[w].OriginalURL # u

(* -------------------------------- C26 ---------------------------------- *)

\* the row of the job's short code holds the result of a render: completed
\* with the content, or failed without content
Recorded(job) ==
  \/ /\ GetLinkByShortCode(job.ShortCode).RenderStatus = RenderStatusCompleted
     /\ GetLinkByShortCode(job.ShortCode).RenderedHTMLContent = MockHTML
  \/ /\ GetLinkByShortCode(job.ShortCode).RenderStatus = RenderStatusFailed
     /\ GetLinkByShortCode(job.ShortCode).RenderedHTMLContent = ""

\* C26: the order of a worker's steps for one job, with a store that
\* performs every update. The worker reaches the render only by the step
\* that sets the job's row to rendering; the step that ends the render
\* leaves the row with the terminal status; a wait channel is signalled only
\* by a worker at its notify step whose job's row already holds the terminal
\* status; a URL leaves the in-flight set, other than by the rollback of a
\* dropped submit, only by a worker at its clear step whose job's row already
\* holds the terminal status. So the update precedes every release and the
\* clearing of the in-flight mark.
C26_WorkerStepOrder ==
  [][/\ \A w \in Workers :
          /\ (wpc'[w] = "render" /\ wpc[w] # "render")
               => /\ wpc[w] = "status"
                  /\ GetLinkByShortCode(wjob[w].ShortCode)'.RenderStatus
                       = RenderStatusRendering
          /\ (wpc'[w] = "notify" /\ wpc[w] # "notify")
               => wpc[w] = "render" /\ Recorded(wjob[w])'
     /\ \A c \in Callers :
          waitChan'[c] > waitChan[c]
            => \E w \in Workers :
                 /\ wpc[w] = "notify"
                 /\ wjob[w].OriginalURL = cjob[c].OriginalURL
                 /\ Recorded(wjob[w])
     /\ \A u \in URLs :
          (u \in inProgress /\ u \notin inProgress')
            => \/ \E c \in Callers :
                    /\ cpc[c] = "QueueRender.select"
                    /\ cjob[c].OriginalURL = u
                    /\ outcome'[c] = "dropped"
               \/ \E w \in Workers :
                    /\ wpc[w] = "clear"
                    /\ wjob[w].OriginalURL = u
                    /\ Recorded(wjob[w])]_vars

\* a waiter has been signalled and has not yet returned, the URL has left
\* the in-flight set, and the row of its job holds the terminal status
C26_Witness ==
  \E c \in Callers, u \in URLs :
    /\ cpc[c] = "WaitForRender.select"
    /\ cjob[c].OriginalURL = u
    /\ waitChan[c] = 1
    /\ u \notin inProgress
    /\ Admitted(u) = 0
    /\ RowOf(u).RenderStatus \in {RenderStatusCompleted, RenderStatusFailed}

(* -------------------------------- C27 ---------------------------------- *)

\* waiters of url whose timer has fired and which are still registered
TimedOutRegistered(url) ==
  {c \in Range(waiting[url]) : cpc[c] = "WaitForRender.cleanup"}

\* C27: the notify never blocks. A worker at its notify step can always take
\* it, whatever the waiters of its URL are doing (blocked in the select, or
\* timed out and not yet removed from the registry); the step gives every
\* registered channel at most one signal, empties the registry entry of the
\* URL and leaves nothing else of the queue changed; and the worker then
\* clears the URL and is back at the channel of jobs.
C27_NotifyNeverBlocks ==
  /\ [](\A w \in Workers : wpc[w] = "notify" => ENABLED WorkerNotify(w))
  /\ [][\A w \in Workers :
         (wpc[w] = "notify" /\ wpc'[w] # wpc[w])
           => /\ wpc'[w] = "clear"
              /\ waiting'[wjob[w].OriginalURL] = <<>>
              /\ \A c \in Callers :
                   /\ waitChan'[c] <= 1
                   /\ c \in TimedOutRegistered(wjob[w].OriginalURL)
                        => cpc'[c] = cpc[c]
              /\ UNCHANGED <<jobs, inProgress, links>>]_vars
  /\ \A w \in Workers : (wpc[w] = "notify") ~> (wpc[w] = "range")

\* a worker is about to notify while one waiter of its URL is blocked in the
\* select and another has timed out and is still registered
C27_Witness ==
  \E w \in Workers, c, d \in Callers :
    /\ wpc[w] = "notify"
    /\ c \in TimedOutRegistered(wjob[w].OriginalURL)
    /\ d \in Range(waiting[wjob[w].OriginalURL])
    /\ cpc[d] = "WaitForRender.select"

(* -------------------------------- C28 ---------------------------------- *)

\* C28: a resubmission is a fresh submission. A submit for a URL that is not
\* in flight and whose earlier job has ended (its row is completed or
\* failed) is admitted whenever the buffer has space: the step of the select
\* appends the job and ends as queued with the URL in flight. A URL with registered waiters is in flight
\* and no worker is past the notify of a job for it, and a wait channel is
\* signalled only by the worker that holds the job of the URL now in flight:
\* a waiter of the new cycle is released by the new job.
C28_FreshResubmission ==
  /\ [][\A c \in Callers :
         (cpc[c] = "QueueRender.select" /\ cpc'[c] # cpc[c]
            /\ RowOf(cjob[c].OriginalURL).RenderStatus \in Terminal
            /\ Len(jobs) < jobsCap)
           => /\ outcome'[c] = "queued"
              /\ jobs' = Append(jobs, cjob[c])
              /\ cjob[c].OriginalURL \in inProgress']_vars
  /\ [](\A u \in URLs :
          waiting[u] # <<>>
            => /\ u \in inProgress
               /\ \A w \in Workers :
                    wjob[w].OriginalURL = u => wpc[w] # "clear")
  /\ [][\A c \in Callers :
         waitChan'[c] > waitChan[c]
           => \E w \in Workers :
                /\ wpc[w] = "notify"
                /\ wjob[w].OriginalURL = cjob[c].OriginalURL
                /\ c \in Range(waiting[wjob[w].OriginalURL])
                /\ Admitted(wjob[w].OriginalURL) = 1]_vars

(* -------------------------------- C29 ---------------------------------- *)

\* caller c serves a POST /generate that found an unfinished link which is
\* not in flight and has not yet returned from the QueueRender of line 99
InRequeue(c) ==
  \/ cpc[c] = "Generate.requeue"
  \/ cpc[c] \in {"QueueRender.select", "panic"} /\ after[c] = "Generate.wait"

\* caller c is between that QueueRender and its response (lines 102-122)
AfterRequeue(c) ==
  \/ cpc[c] \in {"Generate.wait", "Generate.ok"}
  \/ /\ cpc[c] \in {"WaitForRender.select", "WaitForRender.cleanup"}
     /\ after[c] = "Generate.ok"

\* C29: POST /generate that finds a pending or rendering link whose URL is
\* not in flight submits the job again under the link's short code, adds no
\* row to the table, and ends with 200 and the short code and URL of that
\* link, whether the wait that follows is signalled, times out or is not
\* needed.
C29_RequeueUnfinished ==
  [][\A c \in Callers :
       /\ (cpc[c] = "Generate.check" /\ cpc'[c] = "Generate.requeue")
            => /\ cjob[c].OriginalURL \notin inProgress
               /\ GetLinkByOriginalURL(cjob[c].OriginalURL) # NoLink
               /\ UNCHANGED <<queueVars, links, cjob>>
       /\ (cpc[c] = "Generate.requeue" /\ cpc'[c] # cpc[c])
            => /\ cjob'[c] = cjob[c]
               /\ GetLinkByShortCode(cjob[c].ShortCode).OriginalURL
                    = cjob[c].OriginalURL
               /\ cjob[c].OriginalURL \in inProgress'
               /\ UNCHANGED <<jobs, links>>
       /\ ((InRequeue(c) \/ AfterRequeue(c)) /\ cpc'[c] # cpc[c])
            => /\ Len(links') = Len(links)
               /\ cpc'[c] # "panic"
               /\ cpc'[c] = "idle"
                    => /\ outcome'[c] = "200"
                       /\ cjob'[c] = cjob[c]
                       /\ GetLinkByShortCode(cjob[c].ShortCode).OriginalURL
                            = cjob[c].OriginalURL]_vars

(* -------------------------------- C30 ---------------------------------- *)

\* C30: the executor bounds its own execution. A call of RenderPageWithRod
\* returns: with the result the goroutine delivered, or with the timeout
\* error (no HTML) once the timer has fired, and it has returned before the
\* worker goes on; as long as the call has not returned the timeout branch
\* can be taken; and the goroutine, when renderWithRod is done, can always
\* finish its select, with the caller still waiting or gone.
C30_ExecutorReturns ==
  /\ [](\A w \in Workers :
          /\ wpc[w] \in InRod /\ orphans < MaxOrphans => ENABLED RodTimeout(w)
          /\ wpc[w] \in Delivered => ENABLED RodReceive(w)
          /\ wpc[w] = "render"
               => ENABLED (\E err \in RenderResults : RodDeliver(w, err)))
  /\ [](orphans > 0 => ENABLED RodGoroutineEnds)
  /\ [][\A w \in Workers :
         /\ (wpc[w] \in InRod /\ wpc'[w] \notin InRod)
              => \/ wpc[w] = "resultChan.ok" /\ wpc'[w] = "returned.ok"
                 \/ wpc[w] = "resultChan.error" /\ wpc'[w] = "returned.error"
                 \/ wpc'[w] = "returned.error"
         /\ (wpc'[w] = "notify" /\ wpc[w] # "notify")
              => /\ wpc[w] \in Returned
                 /\ wpc[w] = "returned.ok"
                      => GetLinkByShortCode(wjob[w].ShortCode)'.RenderStatus
                           = RenderStatusCompleted
                 /\ wpc[w] = "returned.error"
                      => /\ GetLinkByShortCode(wjob[w].ShortCode)'.RenderStatus
                              = RenderStatusFailed
                         /\ GetLinkByShortCode(
                              wjob[w].ShortCode)'.RenderedHTMLContent = ""]_vars
  /\ \A w \in Workers :
       (wpc[w] \in InRod) ~> (wpc[w] \in Returned \/ orphans = MaxOrphans)

\* a call has returned the timeout error, which is recorded as failed, and
\* its goroutine is still inside renderWithRod, while the worker is inside
\* RenderPageWithRod for its next job with the result already delivered
C30_Witness ==
  \E w \in Workers :
    /\ orphans > 0
    /\ wpc[w] \in Delivered
    /\ \E i \in 1..Len(links) : links[i].RenderStatus = RenderStatusFailed

(* -------------------------------- C31 ---------------------------------- *)

\* the goroutine that takes the step holds rq.mutex for writing, or takes it
\* in this step from the unlocked state
WriteLocked ==
  \/ mutex = Unlocked
  \/ \E c \in Callers : mutex = ByCaller(c) /\ cpc'[c] # cpc[c]
  \/ \E w \in Workers : mutex = ByWorker(w) /\ wpc'[w] # wpc[w]

\* C31: lock discipline. Every step that changes rq.inProgress or
\* rq.waiting is taken by the goroutine that holds rq.mutex for writing or
\* gets it in that step; the snapshot of GetStatus and the answer of
\* IsInProgress are read while no writer holds the mutex; while a goroutine
\* holds the mutex it is released only by that goroutine, and the only steps
\* other goroutines take are steps that touch neither map (a receive on the
\* own wait channel, a timer, the recovery of a panic, a job taken from the
\* channel, a store update, a render).
C31_LockDiscipline ==
  [][/\ (inProgress' # inProgress \/ waiting' # waiting) => WriteLocked
     /\ mutex' # mutex => WriteLocked
     /\ (snapshot' # snapshot /\ snapshot' # <<>>) => mutex = Unlocked
     /\ \A c \in Callers :
          /\ (outcome'[c] \in {"inflight", "absent"}
                /\ outcome'[c] # outcome[c]) => mutex = Unlocked
          /\ (cpc'[c] # cpc[c] /\ mutex \notin {Unlocked, ByCaller(c)})
               => /\ cpc[c] \in {"WaitForRender.select", "panic"}
                  /\ UNCHANGED <<inProgress, waiting>>
     /\ \A w \in Workers :
          (wpc'[w] # wpc[w] /\ mutex \notin {Unlocked, ByWorker(w)})
            => /\ wpc[w] \in {"range", "status"}
               /\ UNCHANGED <<inProgress, waiting>>]_vars

\* a worker holds rq.mutex between notify and clear while one goroutine
\* waits for the lock to remove its timed-out channel and another is about
\* to call the queue
C31_Witness ==
  \E w \in Workers, c, d \in Callers :
    /\ mutex = ByWorker(w)
    /\ wpc[w] = "clear"
    /\ cpc[c] = "WaitForRender.cleanup"
    /\ cpc[d] = "idle"
    /\ outcome[d] = "inflight"

(* -------------------------------- C32 ---------------------------------- *)

\* the places of the registry that hold the wait channel of caller c
Registrations(c) ==
  {<<u, i>> \in URLs \X (1..NumCallers) :
     i <= Len(waiting[u]) /\ waiting[u][i] = c}

\* C32: a wait channel gets at most one send. A channel is registered at
\* most once, under one URL, and only while its caller is inside
\* WaitForRender for that URL; the slot of a registered channel is empty; no
\* channel ever holds more than one value; and the notify step fills the
\* slot of every channel registered under the worker's URL and removes them
\* all from the registry, so no registered waiter is skipped.
C32_OneSendPerSignal ==
  /\ [](\A c \in Callers :
          /\ Cardinality(Registrations(c)) <= 1
          /\ waitChan[c] <= 1
          /\ \A u \in URLs :
               c \in Range(waiting[u])
                 => /\ waitChan[c] = 0
                    /\ cpc[c] \in {"WaitForRender.select",
                                    "WaitForRender.cleanup"}
                    /\ cjob[c].OriginalURL = u)
  /\ [][\A w \in Workers :
         (wpc[w] = "notify" /\ wpc'[w] # wpc[w])
           => /\ \A c \in Range(waiting[wjob[w].OriginalURL]) :
                   waitChan[c] = 0 /\ waitChan'[c] = 1
              /\ \A c \in Callers \ Range(waiting[wjob[w].OriginalURL]) :
                   waitChan'[c] = waitChan[c]
              /\ waiting'[wjob[w].OriginalURL] = <<>>
              /\ \A u \in URLs \ {wjob[w].OriginalURL} :
                   waiting'[u] = waiting[u]]_vars

\* both waiters of a URL have been signalled by one notify and are out of
\* the registry: one is still blocked in the select, the other had already
\* timed out and has not yet run its cleanup
C32_Witness ==
  \E c, d \in Callers, u \in URLs :
    /\ c # d
    /\ waitChan[c] = 1 /\ cpc[c] = "WaitForRender.select"
    /\ waitChan[d] = 1 /\ cpc[d] = "WaitForRender.cleanup"
    /\ cjob[c].OriginalURL = u /\ cjob[d].OriginalURL = u
    /\ waiting[u] = <<>>

(* -------------------------------- C33 ---------------------------------- *)

\* C33: store failures do not wedge the queue. A step whose store update
\* returns an error leaves the table as it is and takes the worker to the
\* same next position as a successful update: to the render after the
\* update to rendering, to the notify after the terminal update. Whatever
\* the row of the job holds, the notify signals every registered waiter that
\* is blocked and empties the registry entry, and the clear removes the URL
\* from the in-flight set, releases the mutex and returns the worker to the
\* channel; so the URL of every admitted job leaves the in-flight set.
C33_StoreFailureNoWedge ==
  /\ [][\A w \in Workers :
         /\ (wpc[w] = "status" /\ wpc'[w] # wpc[w])
              => /\ wpc'[w] = "render"
                 /\ \/ links' = links
                    \/ links' = UpdateLinkRenderStatus(
                                  links, wjob[w].ShortCode,
                                  RenderStatusRendering)
         /\ (wpc[w] = "render" /\ wpc'[w] # wpc[w])
              => /\ wpc'[w] = "notify"
                 /\ mutex' = ByWorker(w)
                 /\ links' = links \/ Recorded(wjob[w])'
         /\ (wpc[w] = "notify" /\ wpc'[w] # wpc[w])
              => /\ wpc'[w] = "clear"
                 /\ waiting'[wjob[w].OriginalURL] = <<>>
                 /\ \A c \in Range(waiting[wjob[w].OriginalURL]) :
                      waitChan'[c] = 1
         /\ (wpc[w] = "clear" /\ wpc'[w] # wpc[w])
              => /\ wpc'[w] = "range"
                 /\ wjob[w].OriginalURL \notin inProgress'
                 /\ mutex' = Unlocked
                 /\ links' = links]_vars
  /\ \A u \in URLs : (Admitted(u) > 0) ~> (u \notin inProgress)
  /\ \A w \in Workers : (wpc[w] = "render") ~> (wpc[w] = "range")

\* both store updates of a job returned errors: its waiter has been
\* signalled, the URL has left the in-flight set, and the row is still
\* pending
C33_Witness ==
  \E c \in Callers, u \in URLs :
    /\ cpc[c] = "WaitForRender.select"
    /\ cjob[c].OriginalURL = u
    /\ waitChan[c] = 1
    /\ u \notin inProgress
    /\ Admitted(u) = 0
    /\ RowOf(u).RenderStatus = RenderStatusPending
    /\ mutex = Unlocked

(* -------------------------------- C34 ---------------------------------- *)

\* the rows of the table stored for url
RowsOf(url) == {i \in 1..Len(links) : links[i].OriginalURL = url}

\* C34: one record per URL. In every reachable state the table holds at
\* most one link for each original URL.
C34_OneRecordPerURL == \A u \in URLs : Cardinality(RowsOf(u)) <= 1

(* -------------------------------- C35 ---------------------------------- *)

\* the handler that created the link with this short code has not yet
\* called QueueRender for it (handlers.go lines 175-184)
NotYetSubmitted(shortCode) ==
  \E c \in Callers :
    cpc[c] = "Generate.queue" /\ cjob[c].ShortCode = shortCode

\* C35: every submitted record reaches a terminal status. When a worker
\* ends the job of a URL (the step that clears the URL from the in-flight
\* set), every link stored for that URL whose handler has called QueueRender
\* is completed or failed, the links of handlers whose submit was refused as
\* a duplicate included.
C35_SubmittedReachesTerminal ==
  [][\A w \in Workers :
       (wpc[w] = "clear" /\ wpc'[w] # wpc[w])
         => \A i \in RowsOf(wjob[w].OriginalURL) :
              \/ links[i].RenderStatus \in Terminal
              \/ NotYetSubmitted(links[i].ShortCode)]_vars

(* -------------------------------- C36 ---------------------------------- *)

\* C36: terminal status is final. A link that is completed or failed is
\* never changed again: no step of a request or of a worker alters its
\* status or its content.
C36_TerminalIsFinal ==
  [][\A i \in 1..Len(links) :
       links[i].RenderStatus \in Terminal => links'[i] = links[i]]_vars

(* -------------------------------- C37 ---------------------------------- *)

\* C37: bounded, consistent counts. The buffer never holds more jobs than
\* its capacity, and the map of every status call satisfies
\* queue_length <= in_progress_count <= capacity + worker_count.
C37_BoundedCounts ==
  /\ Len(jobs) <= jobsCap
  /\ snapshot # <<>>
       => /\ snapshot[1].queue_length <= snapshot[1].in_progress_count
          /\ snapshot[1].in_progress_count
               <= jobsCap + snapshot[1].worker_count

(* -------------------------------- C38 ---------------------------------- *)

\* C38: the cleanup of a timed-out wait touches only its own channel. The
\* step takes the caller's channel out of the list of its URL if it is
\* still there and leaves the other channels of the list in place and in
\* order; if the channel is no longer there (the worker has notified
\* meanwhile, and a new job and new waiters of the URL may have come) the
\* list is left as it is. The lists of other URLs, the slots of the other
\* callers' channels, the buffer, the in-flight set, the store and the
\* workers are unchanged.
C38_CleanupOwnSignalOnly ==
  [][\A c \in Callers :
       (cpc[c] = "WaitForRender.cleanup" /\ cpc'[c] # cpc[c])
         => LET u == cjob[c].OriginalURL
                old == waiting[u]
                new == waiting'[u]
            IN /\ IF c \in Range(old)
                    THEN \E i \in 1..Len(old) :
                           /\ old[i] = c
                           /\ new = SubSeq(old, 1, i - 1)
                                      \o SubSeq(old, i + 1, Len(old))
                    ELSE new = old
               /\ \A v \in DOMAIN waiting \ {u} : waiting'[v] = waiting[v]
               /\ \A d \in Callers \ {c} :
                    waitChan'[d] = waitChan[d] /\ cpc'[d] = cpc[d]
               /\ outcome'[c] = "timedout"
               /\ UNCHANGED <<jobs, inProgress, links, workerVars>>]_vars

\* a waiter has timed out and was notified before its cleanup; the URL is
\* in flight again with a new job and the only registered channel is the one
\* of a new waiter
C38_Witness ==
  \E c, d \in Callers, u \in URLs :
    /\ c # d
    /\ cpc[c] = "WaitForRender.cleanup"
    /\ cjob[c].OriginalURL = u
    /\ waitChan[c] = 1
    /\ waiting[u] = <<d>>
    /\ cpc[d] = "WaitForRender.select"
    /\ Admitted(u) = 1
    /\ mutex = Unlocked

=============================================================================
